---- MODULE Spec2Model ----
(***************************************************************************)
(* Directional-Change (DC) event detection: transform_to_dc_events of      *)
(* src/src/dc/dc_transformer.py, with the callers that re-enter it         *)
(* (DCModelManager.run_dc_transform, analyze_threshold_sensitivity).       *)
(*                                                                         *)
(* Numbers.  Prices, thresholds, extreme_price and change_pct are Python   *)
(* floats.  They are modelled as IEEE-754 binary64 values with every       *)
(* operation rounded to nearest, ties to even, so that a comparison such   *)
(* as  price >= extreme_price * (1 + threshold)  takes the branch the      *)
(* source takes.                                                           *)
(*                                                                         *)
(* Rows.  A column is a sequence; row index i of the source (0-based) is   *)
(* element i + 1.  The DataFrame index is the column Index of timestamps,   *)
(* modelled as integers; Spec starts from frames whose timestamps are      *)
(* strictly increasing, MalformedSpec from frames whose timestamps are out *)
(* of order or repeated.                                                   *)
(***************************************************************************)
EXTENDS Integers, Sequences, FiniteSets, TLC

VARIABLES
    df_prices,       \* the caller's input: the price column, NaN where missing
    threshold,       \* tau of the call in progress or just returned
    pc,              \* "idle" between calls, "detect" inside the loop of line 63,
                     \* the exception's name after a call that raised
    prices,          \* df_prices[price_column].dropna(): <<index label, price>> pairs
    i,               \* enumerate index of the detection loop
    mode,            \* "up" | "down"
    extreme_price,   \* the detector's running reference price
    last_event_idx,  \* enumerate index of the last confirmed event
    df_result,       \* the frame being annotated / last returned: column -> values
    returned,        \* per tau, the set of distinct frames calls with it returned
    recalled,        \* a tau was called again after a call with another tau
    df_dc,           \* the annotated frame handed to an analysis function
    analysis,        \* the analysis function last called on df_dc and its result
    manager,         \* the fields of the DCModelManager object
    last_call        \* the last method called on the manager and how it ended

detector == <<df_prices, threshold, pc, prices, i, mode, extreme_price,
              last_event_idx, df_result, returned, recalled>>

vars == <<df_prices, threshold, pc, prices, i, mode, extreme_price,
          last_event_idx, df_result, returned, recalled, df_dc, analysis,
          manager, last_call>>

-----------------------------------------------------------------------------
(* Python float: IEEE-754 binary64, round to nearest, ties to even.        *)
(* A finite double is sign * m * 2^e, kept as [s, m, e] with s in          *)
(* {-1, 0, 1} and m a natural number that is odd (0 for zero), so equal    *)
(* doubles are equal records.  Naturals beyond 31 bits are sequences of    *)
(* limbs in base 2^15, least significant first, no leading zero limb.      *)
(* The exponent range is not bounded: the magnitudes met here stay far     *)
(* from overflow and from the subnormal range.                             *)

\* bits of the significand of a binary64
Precision == 53

LimbBits == 15

Base == 2 ^ LimbBits

Pow2(n) == 2 ^ n

Min(a, b) == IF a <= b THEN a ELSE b

Max(a, b) == IF a >= b THEN a ELSE b

Rest(a) == IF a = <<>> THEN <<>> ELSE Tail(a)

Low(a) == IF a = <<>> THEN 0 ELSE Head(a)

\* drop the leading (most significant) zero limbs
RECURSIVE BigNorm(_)
BigNorm(a) ==
    IF a = <<>> THEN <<>>
    ELSE IF a[Len(a)] = 0 THEN BigNorm(SubSeq(a, 1, Len(a) - 1))
    ELSE a

RECURSIVE BigOfNat(_)
BigOfNat(n) == IF n = 0 THEN <<>> ELSE <<n % Base>> \o BigOfNat(n \div Base)

RECURSIVE BigAddCarry(_, _, _)
BigAddCarry(a, b, carry) ==
    IF a = <<>> /\ b = <<>> THEN BigOfNat(carry)
    ELSE LET x == Low(a) + Low(b) + carry
         IN  <<x % Base>> \o BigAddCarry(Rest(a), Rest(b), x \div Base)

BigAdd(a, b) == BigAddCarry(a, b, 0)

\* a - b - borrow for a >= b + borrow, before normalisation
RECURSIVE BigSubBorrow(_, _, _)
BigSubBorrow(a, b, borrow) ==
    IF a = <<>> THEN <<>>
    ELSE LET x == Low(a) - Low(b) - borrow
         IN  IF x < 0
             THEN <<x + Base>> \o BigSubBorrow(Rest(a), Rest(b), 1)
             ELSE <<x>> \o BigSubBorrow(Rest(a), Rest(b), 0)

BigSub(a, b) == BigNorm(BigSubBorrow(a, b, 0))

\* -1, 0, 1 as a < b, a = b, a > b: the most significant differing limb decides
RECURSIVE BigCmpFrom(_, _, _)
BigCmpFrom(a, b, k) ==
    IF k = 0 THEN 0
    ELSE IF a[k] < b[k] THEN -1
    ELSE IF a[k] > b[k] THEN 1
    ELSE BigCmpFrom(a, b, k - 1)

BigCmp(a, b) ==
    IF Len(a) < Len(b) THEN -1
    ELSE IF Len(a) > Len(b) THEN 1
    ELSE BigCmpFrom(a, b, Len(a))

\* a * k + carry for 0 <= k < Base
RECURSIVE BigMulSmall(_, _, _)
BigMulSmall(a, k, carry) ==
    IF a = <<>> THEN BigOfNat(carry)
    ELSE LET x == Head(a) * k + carry
         IN  <<x % Base>> \o BigMulSmall(Tail(a), k, x \div Base)

RECURSIVE BigMul(_, _)
BigMul(a, b) ==
    IF b = <<>> \/ a = <<>> THEN <<>>
    ELSE BigAdd(BigMulSmall(a, Head(b), 0),
                LET high == BigMul(a, Tail(b))
                IN  IF high = <<>> THEN <<>> ELSE <<0>> \o high)

\* <<floor(a / k), a mod k>> for 0 < k <= Base, from the most significant limb
RECURSIVE BigDivSmallFrom(_, _, _, _)
BigDivSmallFrom(a, k, pos, rem) ==
    IF pos = 0 THEN <<<<>>, rem>>
    ELSE LET x    == rem * Base + a[pos]
             rest == BigDivSmallFrom(a, k, pos - 1, x % k)
         IN  <<Append(rest[1], x \div k), rest[2]>>

BigDivSmall(a, k) ==
    LET r == BigDivSmallFrom(a, k, Len(a), 0)
    IN  <<BigNorm(r[1]), r[2]>>

\* a * 2^n
BigShl(a, n) ==
    IF a = <<>> THEN <<>>
    ELSE [j \in 1..(n \div LimbBits) |-> 0] \o BigMulSmall(a, Pow2(n % LimbBits), 0)

\* floor(a / 2^n)
BigShr(a, n) ==
    IF n \div LimbBits >= Len(a) THEN <<>>
    ELSE BigDivSmall(SubSeq(a, (n \div LimbBits) + 1, Len(a)), Pow2(n % LimbBits))[1]

RECURSIVE NatBitLen(_)
NatBitLen(n) == IF n = 0 THEN 0 ELSE 1 + NatBitLen(n \div 2)

BigBitLen(a) == IF a = <<>> THEN 0 ELSE LimbBits * (Len(a) - 1) + NatBitLen(a[Len(a)])

BigIsOdd(a) == Low(a) % 2 = 1

\* bit n of a (bit 0 is the least significant)
BigBit(a, n) ==
    IF n \div LimbBits >= Len(a) THEN 0
    ELSE (a[(n \div LimbBits) + 1] \div Pow2(n % LimbBits)) % 2

\* number of trailing zero bits of a > 0
RECURSIVE BigTrailingZeros(_)
BigTrailingZeros(a) ==
    IF Head(a) = 0 THEN LimbBits + BigTrailingZeros(Tail(a))
    ELSE LET RECURSIVE tz(_)
             tz(n) == IF n % 2 = 1 THEN 0 ELSE 1 + tz(n \div 2)
         IN  tz(Head(a))

\* the largest digit q, grown from the candidate bits j, j - 1, ..., 0, with q * b <= x
RECURSIVE DigitSearch(_, _, _, _)
DigitSearch(x, b, q, j) ==
    IF j < 0 THEN q
    ELSE IF BigCmp(BigMulSmall(b, q + Pow2(j), 0), x) <= 0
    THEN DigitSearch(x, b, q + Pow2(j), j - 1)
    ELSE DigitSearch(x, b, q, j - 1)

\* long division in base 2^15 from limb pos down: <<quotient limbs, remainder>>
RECURSIVE BigDivModFrom(_, _, _, _)
BigDivModFrom(a, b, pos, rem) ==
    IF pos = 0 THEN <<<<>>, rem>>
    ELSE LET x    == BigNorm(<<a[pos]>> \o rem)
             q    == DigitSearch(x, b, 0, LimbBits - 1)
             r    == BigSub(x, BigMulSmall(b, q, 0))
             rest == BigDivModFrom(a, b, pos - 1, r)
         IN  <<Append(rest[1], q), rest[2]>>

\* <<floor(a / b), a mod b>> for b > 0
BigDivMod(a, b) ==
    LET r == BigDivModFrom(a, b, Len(a), <<>>)
    IN  <<BigNorm(r[1]), r[2]>>

\* np.nan
NaN == [nan |-> TRUE, s |-> 0, m |-> <<>>, e |-> 0]

DZero == [nan |-> FALSE, s |-> 0, m |-> <<>>, e |-> 0]

\* the double nearest to sign * m * 2^e (m a limb sequence): round to
\* Precision bits, ties to even, then drop the trailing zero bits
Round(sign, m, e) ==
    IF m = <<>> \/ sign = 0 THEN DZero
    ELSE LET drop    == Max(0, BigBitLen(m) - Precision)
             kept    == BigShr(m, drop)
             lost    == BigSub(m, BigShl(kept, drop))
             half    == IF drop = 0 THEN <<>> ELSE BigShl(<<1>>, drop - 1)
             up      == /\ drop > 0
                        /\ \/ BigCmp(lost, half) > 0
                           \/ BigCmp(lost, half) = 0 /\ BigIsOdd(kept)
             rounded == IF up THEN BigAdd(kept, <<1>>) ELSE kept
             tz      == BigTrailingZeros(rounded)
         IN  [nan |-> FALSE, s |-> sign, m |-> BigShr(rounded, tz), e |-> e + drop + tz]

\* an integer of the program as a double
DInt(n) == Round(IF n < 0 THEN -1 ELSE IF n = 0 THEN 0 ELSE 1,
                 BigOfNat(IF n < 0 THEN -n ELSE n), 0)

\* the integer literal 1 of 1 + threshold and 1 - threshold
DOne == DInt(1)

DNeg(x) == [x EXCEPT !.s = -x.s]

DAbs(x) == [x EXCEPT !.s = IF x.s = 0 THEN 0 ELSE 1]

\* the significand of x at exponent e <= x.e
Aligned(x, e) == BigShl(x.m, x.e - e)

\* -1, 0, 1 as x < y, x = y, x > y, for finite x and y
DCmp(x, y) ==
    IF x.s # y.s THEN (IF x.s < y.s THEN -1 ELSE 1)
    ELSE IF x.s = 0 THEN 0
    ELSE LET e == Min(x.e, y.e)
         IN  x.s * BigCmp(Aligned(x, e), Aligned(y, e))

DAdd(x, y) ==
    IF x.nan \/ y.nan THEN NaN
    ELSE IF x.s = 0 THEN y
    ELSE IF y.s = 0 THEN x
    ELSE LET e  == Min(x.e, y.e)
             mx == Aligned(x, e)
             my == Aligned(y, e)
             c  == BigCmp(mx, my)
         IN  IF x.s = y.s THEN Round(x.s, BigAdd(mx, my), e)
             ELSE IF c = 0 THEN DZero
             ELSE IF c > 0 THEN Round(x.s, BigSub(mx, my), e)
             ELSE Round(y.s, BigSub(my, mx), e)

DSub(x, y) == DAdd(x, DNeg(y))

DMul(x, y) ==
    IF x.nan \/ y.nan THEN NaN
    ELSE Round(x.s * y.s, BigMul(x.m, y.m), x.e + y.e)

\* x / y: the quotient to at least Precision + 2 bits, followed by a sticky
\* bit for a non-zero remainder, then rounded; 0/0 is nan.  A non-zero x over
\* 0 (an infinity) does not arise: prices are positive
DDiv(x, y) ==
    IF x.nan \/ y.nan \/ y.s = 0 THEN NaN
    ELSE IF x.s = 0 THEN DZero
    ELSE LET k  == Max(0, Precision + 2 + BigBitLen(y.m) - BigBitLen(x.m))
             qr == BigDivMod(BigShl(x.m, k), y.m)
             q  == BigAdd(BigShl(qr[1], 1), IF qr[2] = <<>> THEN <<>> ELSE <<1>>)
         IN  Round(x.s * y.s, q, x.e - y.e - k - 1)

\* the float literal n/d written in decimal (0.02 is Dec(2, 100)): the
\* double nearest to the ratio
Dec(n, d) == DDiv(DInt(n), DInt(d))

\* comparisons: False when an operand is nan
DGeq(x, y) == ~x.nan /\ ~y.nan /\ DCmp(x, y) >= 0

DLeq(x, y) == ~x.nan /\ ~y.nan /\ DCmp(x, y) <= 0

DLt(x, y) == ~x.nan /\ ~y.nan /\ DCmp(x, y) < 0

DGt(x, y) == ~x.nan /\ ~y.nan /\ DCmp(x, y) > 0

-----------------------------------------------------------------------------
(* Bounds of the input space *)

\* rows of a series of integer prices
MaxLen == 3

\* integer prices 1..MaxPrice
MaxPrice == 3

\* rows of a series of decimal prices
MaxDecimalLen == 2

Prices == {DInt(n) : n \in 1..MaxPrice}

\* 9.8, 10.0 and 10.2
DecimalPrices == {Dec(98, 10), DInt(10), Dec(102, 10)}

\* 0.02 and 0.5
Thresholds == {Dec(2, 100), Dec(5, 10)}

\* threshold: float = 0.02, the default of transform_to_dc_events
DefaultThreshold == Dec(2, 100)

\* the worked scenario of the specification, section 8
Scenario == <<DInt(100), DInt(100), DInt(103), DInt(103), DInt(96), DInt(96), DInt(101)>>

RECURSIVE SeqsUpTo(_, _)
SeqsUpTo(S, n) ==
    IF n = 0 THEN {<<>>}
    ELSE LET shorter == SeqsUpTo(S, n - 1)
         IN  shorter \cup {Append(s, x) : s \in {t \in shorter : Len(t) = n - 1}, x \in S}

\* a longer series with missing prices, a running minimum and a running maximum
Gapped == <<DInt(2), NaN, DInt(1), DInt(2), DInt(3), NaN, DInt(1), DInt(2)>>

SeriesSet ==
    SeqsUpTo(Prices \cup {NaN}, MaxLen) \cup SeqsUpTo(DecimalPrices, MaxDecimalLen)
        \cup {Scenario, Gapped}

-----------------------------------------------------------------------------
(* Helpers *)

\* rows of a column, 0-based as in the source
Rows(col) == 0..(Len(col) - 1)

At(col, r) == col[r + 1]

\* col.loc[timestamp] = v: every row whose index label is timestamp
Set(index, col, timestamp, v) ==
    [k \in 1..Len(col) |-> IF index[k] = timestamp THEN v ELSE col[k]]

Const(n, v) == [k \in 1..n |-> v]

\* rows of a price column taken as valid although the price is missing
RECURSIVE DropNaKept(_, _)
DropNaKept(col, r) ==
    IF r >= Len(col) THEN <<>>
    ELSE <<<<r, At(col, r)>>>> \o DropNaKept(col, r + 1)

\* Series.dropna() followed by .items(): the valid rows, in order
RECURSIVE DropNa(_, _)
DropNa(col, r) ==
    IF r >= Len(col) THEN <<>>
    ELSE IF At(col, r).nan THEN DropNa(col, r + 1)
    ELSE <<<<r, At(col, r)>>>> \o DropNa(col, r + 1)

\* prices.items(): the <<index label, price>> of the valid rows
Items(index, valid) == [k \in 1..Len(valid) |-> <<At(index, valid[k][1]), valid[k][2]>>]

\* the column left as it is, missing values included
FillNaSkipped(col) == col

\* Series.fillna(0)
FillNa(col) == [k \in 1..Len(col) |-> IF col[k].nan THEN DZero ELSE col[k]]

\* the confirmation test with a strict comparison
UpConfirmedStrict(price, ref, tau) == DGt(price, DMul(ref, DAdd(DOne, tau)))

(* price >= extreme_price * (1 + threshold) *)
UpConfirmed(price, ref, tau) == DGeq(price, DMul(ref, DAdd(DOne, tau)))


\* the downward test written with the upward band, 1 + threshold
DownConfirmedUpperBand(price, ref, tau) == DLeq(price, DMul(ref, DAdd(DOne, tau)))

(* price <= extreme_price * (1 - threshold) *)
DownConfirmed(price, ref, tau) == DLeq(price, DMul(ref, DSub(DOne, tau)))

(* (price - extreme_price) / extreme_price *)
ChangePct(price, ref) == DDiv(DSub(price, ref), ref)

-----------------------------------------------------------------------------
(* Event Period Annotator, lines 99-110 *)

\* the rows with event_type != 'no_event'
EventIndices(event_type) == {r \in Rows(event_type) : At(event_type, r) # "no_event"}

\* df_result[df_result['event_type'] != 'no_event'].index: the index labels of
\* the event rows, in row order
EventLabels(index, event_type) ==
    LET keep == SelectSeq([k \in 1..Len(event_type) |-> k],
                          LAMBDA k : event_type[k] # "no_event")
    IN  [j \in 1..Len(keep) |-> index[keep[j]]]

\* the events strictly before the row
PreviousEventsStrict(event_indices, timestamp) ==
    SelectSeq(event_indices, LAMBDA e : e < timestamp)

\* event_indices[event_indices <= timestamp]
PreviousEvents(event_indices, timestamp) ==
    SelectSeq(event_indices, LAMBDA e : e <= timestamp)

\* previous_events[0] instead of previous_events[-1]
First(previous_events) == previous_events[1]

\* previous_events[-1]
Last(previous_events) == previous_events[Len(previous_events)]

\* Index.is_monotonic_increasing: no label below the one before it
IsMonotonicIncreasing(index) == \A k \in 1..(Len(index) - 1) : index[k] <= index[k + 1]

\* the positions of the rows that carry the label
Positions(index, label) == {k \in Rows(index) : At(index, k) = label}

\* the label is carried by more than one row
Repeated(index, label) == Cardinality(Positions(index, label)) > 1

\* df_result.index.get_loc(label): the position of a label that occurs once;
\* for a repeated label the slice of its positions when the index is
\* monotonic increasing, and the boolean mask of its rows when it is not
GetLoc(index, label) ==
    LET found == Positions(index, label)
    IN  IF ~Repeated(index, label) THEN CHOOSE k \in found : TRUE
        ELSE IF IsMonotonicIncreasing(index)
            THEN [start |-> CHOOSE k \in found : \A j \in found : k <= j,
                  stop  |-> (CHOOSE k \in found : \A j \in found : k >= j) + 1]
        ELSE [k \in 1..Len(index) |-> index[k] = label]

\* rows before any event counted from 1
EventPeriodAtFromOne(index, event_indices, i_row) ==
    LET previous_events == PreviousEvents(event_indices, At(index, i_row))
    IN  IF previous_events # <<>> THEN i_row - GetLoc(index, Last(previous_events))
        ELSE i_row + 1

\* lines 103-110: the event_period of row i_row
EventPeriodAt(index, event_indices, i_row) ==
    LET previous_events == PreviousEvents(event_indices, At(index, i_row))
    IN  IF previous_events # <<>> THEN i_row - GetLoc(index, Last(previous_events))
        ELSE i_row

\* line 108 on a row whose last previous event carries a repeated label: the
\* int minus the slice raises TypeError; the int minus the mask is an array,
\* and writing the array into the one cell raises ValueError
EventPeriodRaisedAt(index, event_indices, i_row) ==
    LET previous_events == PreviousEvents(event_indices, At(index, i_row))
    IN  IF previous_events # <<>> /\ Repeated(index, Last(previous_events))
        THEN IF IsMonotonicIncreasing(index) THEN "TypeError" ELSE "ValueError"
        ELSE "none"

\* lines 102-110: the exception of the first row that raises, "none" when the
\* loop completes
EventPeriodRaised(index, event_type) ==
    LET event_indices == EventLabels(index, event_type)
        raising == {r \in Rows(event_type) :
                       EventPeriodRaisedAt(index, event_indices, r) # "none"}
    IN  IF raising = {} THEN "none"
        ELSE EventPeriodRaisedAt(index, event_indices,
                                 CHOOSE r \in raising : \A q \in raising : r <= q)

\* lines 99-110: the event_period column of a loop that completes
EventPeriod(index, event_type) ==
    [k \in 1..Len(event_type) |->
        EventPeriodAt(index, EventLabels(index, event_type), k - 1)]

-----------------------------------------------------------------------------
(* transform_to_dc_events *)

\* no frame has been handed to an analysis function
NoFrame == [event_type |-> <<>>, event_period |-> <<>>]

\* no analysis function has been called on the frame yet; each run calls one
NoAnalysis == [fn |-> "none"]

\* None, and a value that is not None
None == <<>>

Some(value) == <<value>>

\* DCModelManager.__init__, lines 30-33
NewManager ==
    [current_ticker    |-> None,
     df_hist_price     |-> None,
     df_dc_events      |-> None,
     current_threshold |-> None]

\* no method of the manager has been called yet
NoCall == [method |-> "none"]

\* timestamps in increasing order, one per row
RangeIndex(n) == [k \in 1..n |-> k - 1]

\* a price frame: the index and the price column
Frame(index, close) == [Index |-> index, Close |-> close]

Init ==
    /\ df_prices \in {Frame(RangeIndex(Len(s)), s) : s \in SeriesSet}
    /\ threshold = DefaultThreshold
    /\ pc = "idle"
    /\ prices = <<>>
    /\ i = 0
    /\ mode = "up"
    /\ extreme_price = NaN
    /\ last_event_idx = 0
    /\ df_result = df_prices
    /\ returned = [t \in Thresholds |-> {}]
    /\ recalled = FALSE
    /\ df_dc = NoFrame
    /\ analysis = NoAnalysis
    /\ manager = NewManager
    /\ last_call = NoCall

Recall(tau) == recalled \/ (returned[tau] # {} /\ threshold # tau)

\* the mode left by the previous call
StartModeCarried == mode

\* lines 59-61: the detector state at the start of a call
StartMode == "up"

StartExtreme(valid) == valid[1][2]

\* lines 45-52: fewer than 2 valid prices, the copy is returned as it is
CallInsufficient(tau) ==
    /\ pc # "detect"
    /\ Len(DropNa(df_prices.Close, 0)) < 2
    /\ threshold' = tau
    /\ prices' = Items(df_prices.Index, DropNa(df_prices.Close, 0))
    /\ df_result' = df_prices
    /\ returned' = [returned EXCEPT ![tau] = @ \cup {df_result'}]
    /\ recalled' = Recall(tau)
    /\ pc' = "idle"
    /\ UNCHANGED <<df_prices, i, mode, extreme_price, last_event_idx,
                   df_dc, analysis, manager, last_call>>

\* lines 45-61: the copy, the three new columns and the initial detector state
CallStart(tau) ==
    /\ pc # "detect"
    /\ Len(DropNa(df_prices.Close, 0)) >= 2
    /\ threshold' = tau
    /\ prices' = Items(df_prices.Index, DropNa(df_prices.Close, 0))
    /\ df_result' = [Index         |-> df_prices.Index,
                     Close         |-> df_prices.Close,
                     event_type    |-> Const(Len(df_prices.Close), "no_event"),
                     extreme_price |-> Const(Len(df_prices.Close), NaN),
                     change_pct    |-> Const(Len(df_prices.Close), NaN)]
    /\ extreme_price' = StartExtreme(prices')
    /\ mode' = StartMode
    /\ last_event_idx' = 0
    /\ i' = 0
    /\ pc' = "detect"
    /\ recalled' = Recall(tau)
    /\ UNCHANGED <<df_prices, returned, df_dc, analysis, manager, last_call>>

\* the event written after the reference was updated to the price
ConfirmAfterUpdate(df, timestamp, type, ref, price) ==
    [df EXCEPT !.event_type    = Set(df.Index, @, timestamp, type),
               !.extreme_price = Set(df.Index, @, timestamp, price),
               !.change_pct    = Set(df.Index, @, timestamp, ChangePct(price, price))]

\* df_result.loc[timestamp, ...] = ... of a confirmed event
Confirm(df, timestamp, type, ref, price) ==
    [df EXCEPT !.event_type    = Set(df.Index, @, timestamp, type),
               !.extreme_price = Set(df.Index, @, timestamp, ref),
               !.change_pct    = Set(df.Index, @, timestamp, ChangePct(price, ref))]

\* the mode left as it is after a confirmation
FlipStuck(m) == m

\* the mode after a confirmation
Flip(m) == IF m = "up" THEN "down" ELSE "up"

\* the reference left at the last confirmed event's price while searching
SearchUpKept(price, ref) == ref

\* lines 77-79: searching upwards, the reference follows a lower price
SearchUp(price, ref) == IF DLt(price, ref) THEN price ELSE ref

\* lines 92-94: searching downwards, the reference follows a higher price
SearchDown(price, ref) == IF DGt(price, ref) THEN price ELSE ref

\* lines 65-94: the body of the loop for the i-th valid observation, on the
\* frame and the detector state s
LoopBody(s, i_valid, timestamp, price, tau) ==
    IF s.mode = "up"
    THEN IF UpConfirmed(price, s.extreme_price, tau)
         THEN [df_result      |-> Confirm(s.df_result, timestamp, "dc_up", s.extreme_price, price),
               extreme_price  |-> price,
               mode           |-> Flip(s.mode),
               last_event_idx |-> i_valid]
         ELSE [s EXCEPT !.extreme_price = SearchUp(price, s.extreme_price)]
    ELSE IF DownConfirmed(price, s.extreme_price, tau)
         THEN [df_result      |-> Confirm(s.df_result, timestamp, "dc_down", s.extreme_price, price),
               extreme_price  |-> price,
               mode           |-> Flip(s.mode),
               last_event_idx |-> i_valid]
         ELSE [s EXCEPT !.extreme_price = SearchDown(price, s.extreme_price)]

\* the frame and the detector state after an iteration
Stepped(after) ==
    /\ df_result' = after.df_result
    /\ extreme_price' = after.extreme_price
    /\ mode' = after.mode
    /\ last_event_idx' = after.last_event_idx

\* lines 63-94: one iteration of the detection loop
DetectStep ==
    /\ pc = "detect"
    /\ i < Len(prices)
    /\ Stepped(LoopBody([df_result      |-> df_result,
                         extreme_price  |-> extreme_price,
                         mode           |-> mode,
                         last_event_idx |-> last_event_idx],
                        i, prices[i + 1][1], prices[i + 1][2], threshold))
    /\ i' = i + 1
    /\ UNCHANGED <<df_prices, threshold, pc, prices, returned, recalled,
                   df_dc, analysis, manager, last_call>>

\* lines 96-123: fillna, the event_period column, return; when line 108
\* raises, the call ends with the exception and returns no frame
Annotate ==
    /\ pc = "detect"
    /\ i = Len(prices)
    /\ IF EventPeriodRaised(df_result.Index, df_result.event_type) # "none"
       THEN /\ pc' = EventPeriodRaised(df_result.Index, df_result.event_type)
            /\ UNCHANGED <<df_result, returned>>
       ELSE /\ df_result' = [Index         |-> df_result.Index,
                             Close         |-> df_result.Close,
                             event_type    |-> df_result.event_type,
                             extreme_price |-> FillNa(df_result.extreme_price),
                             change_pct    |-> FillNa(df_result.change_pct),
                             event_period  |-> EventPeriod(df_result.Index, df_result.event_type)]
            /\ returned' = [returned EXCEPT ![threshold] = @ \cup {df_result'}]
            /\ pc' = "idle"
    /\ UNCHANGED <<df_prices, threshold, prices, i, mode, extreme_price,
                   last_event_idx, recalled, df_dc, analysis, manager, last_call>>

-----------------------------------------------------------------------------
(* Analysis of an annotated frame: src/src/dc/dc_analyzer.py and           *)
(* src/src/strategies/simple_dc_strategy.py.  The functions take any frame *)
(* that carries the DC columns, so df_dc ranges over bounded frames with   *)
(* arbitrary event types and event periods.                                *)

\* rows of an annotated frame
MaxRows == 3

\* rows of an annotated frame whose periods lie on the edges of the period bins
MaxEdgeRows == 1

EventTypes == {"dc_up", "dc_down"}

\* a no_event row, and events with a period of 0, at and above the short limit
CoreRows == {<<"no_event", 2>>} \cup (EventTypes \X {0, 3, 4})

\* events with a period on either side of each bin edge
EdgeRows == EventTypes \X {5, 6, 10, 11, 20, 21, 50, 51, 100, 101}

\* the frame with the given <<event_type, event_period>> rows
FrameOf(rows) ==
    [event_type   |-> [k \in 1..Len(rows) |-> rows[k][1]],
     event_period |-> [k \in 1..Len(rows) |-> rows[k][2]]]

AnnotatedFrames ==
    {FrameOf(rows) : rows \in SeqsUpTo(CoreRows, MaxRows) \cup SeqsUpTo(EdgeRows, MaxEdgeRows)}

\* df_dc[df_dc['event_type'] != 'no_event']
DcEvents(df) ==
    LET keep == SelectSeq([k \in 1..Len(df.event_type) |-> k],
                          LAMBDA k : df.event_type[k] # "no_event")
    IN  [event_type   |-> [j \in 1..Len(keep) |-> df.event_type[keep[j]]],
         event_period |-> [j \in 1..Len(keep) |-> df.event_period[keep[j]]]]

\* (column == value).sum()
CountOf(col, value) == Len(SelectSeq(col, LAMBDA x : x = value))

RECURSIVE SumOf(_)
SumOf(col) == IF col = <<>> THEN 0 ELSE col[1] + SumOf(Rest(col))

\* Series.min() and Series.max() of a non-empty integer column
MinOf(col) == CHOOSE x \in {col[k] : k \in 1..Len(col)} : \A k \in 1..Len(col) : x <= col[k]

MaxOf(col) == CHOOSE x \in {col[k] : k \in 1..Len(col)} : \A k \in 1..Len(col) : x >= col[k]

\* Series.mean() of a non-empty integer column: the float sum over the count
MeanOf(col) == DDiv(DInt(SumOf(col)), DInt(Len(col)))

\* the periods of all events, without the filter
EventPeriodsUnfiltered(dc_events) == dc_events.event_period

\* lines 41-42 (and line 202): event_periods[event_periods > 0]
EventPeriods(dc_events) == SelectSeq(dc_events.event_period, LAMBDA x : x > 0)

\* the column sorted in ascending order
RECURSIVE SortedInts(_)
SortedInts(col) ==
    IF col = <<>> THEN <<>>
    ELSE LET k == CHOOSE k \in 1..Len(col) : \A j \in 1..Len(col) : col[k] <= col[j]
         IN  <<col[k]>> \o SortedInts(SubSeq(col, 1, k - 1) \o SubSeq(col, k + 1, Len(col)))

\* Series.median() of a non-empty integer column: the middle value, or the
\* mean of the two middle values, as a float
MedianOf(col) ==
    LET sorted == SortedInts(col)
        half   == Len(col) \div 2
    IN  IF Len(col) % 2 = 1 THEN DInt(sorted[half + 1])
        ELSE DDiv(DInt(sorted[half] + sorted[half + 1]), DInt(2))

\* Series.std() of a non-empty integer column, with ddof = 1: not-a-number for
\* a single value; for more values the square root is not evaluated and the
\* result stands as the standard deviation of the column
StdOf(col) == IF Len(col) = 1 THEN NaN ELSE [std_of |-> col]

\* lines 53-57: the value reported when the period list is empty
EmptyPeriodStatistic == DZero

\* line 52: n_up / n_down if n_down > 0 else np.nan
UpDownRatio(n_up, n_down) ==
    IF n_down > 0 THEN DDiv(DInt(n_up), DInt(n_down)) ELSE NaN

\* calculate_basic_statistics, lines 34-63; df_dc['event_type'] of line 35
\* raises on a frame without the DC columns; the change_pct statistics of
\* lines 58-62 are left out
CalculateBasicStatistics(df) ==
    LET total_rows    == Len(df.event_type)
        dc_events     == DcEvents(df)
        n_events      == Len(dc_events.event_type)
        n_up          == CountOf(dc_events.event_type, "dc_up")
        n_down        == CountOf(dc_events.event_type, "dc_down")
        event_periods == EventPeriods(dc_events)
        stat(value)   == IF Len(event_periods) > 0 THEN value ELSE EmptyPeriodStatistic
    IN  IF "event_type" \notin DOMAIN df THEN [raised |-> "KeyError"]
        ELSE IF total_rows = 0 THEN [raised |-> "ZeroDivisionError"]
        ELSE [raised              |-> "none",
              total_days          |-> total_rows,
              total_events        |-> n_events,
              events_percentage   |-> DDiv(DInt(n_events), DInt(total_rows)),
              up_events           |-> n_up,
              down_events         |-> n_down,
              up_down_ratio       |-> UpDownRatio(n_up, n_down),
              mean_event_period   |-> stat(MeanOf(event_periods)),
              median_event_period |-> stat(MedianOf(event_periods)),
              std_event_period    |-> stat(StdOf(event_periods)),
              min_event_period    |-> stat(DInt(MinOf(event_periods))),
              max_event_period    |-> stat(DInt(MaxOf(event_periods)))]

\* the state of the detector while an analysis function runs
AnalyzerInit ==
    /\ df_prices = Frame(<<>>, <<>>)
    /\ threshold = DefaultThreshold
    /\ pc = "idle"
    /\ prices = <<>>
    /\ i = 0
    /\ mode = "up"
    /\ extreme_price = NaN
    /\ last_event_idx = 0
    /\ df_result = df_prices
    /\ returned = [t \in Thresholds |-> {}]
    /\ recalled = FALSE
    /\ df_dc \in AnnotatedFrames
    /\ analysis = NoAnalysis
    /\ manager = NewManager
    /\ last_call = NoCall

BasicStatistics ==
    /\ analysis = NoAnalysis
    /\ analysis' = [fn |-> "calculate_basic_statistics", out |-> CalculateBasicStatistics(df_dc)]
    /\ UNCHANGED <<detector, df_dc, manager, last_call>>

\* line 96: labels
Labels == <<"0-5", "6-10", "11-20", "21-50", "51-100", "100+">>

\* lines 95-103: pd.cut with bins [0, 5, 10, 20, 50, 100, inf] and right=True:
\* the intervals are (0, 5], (5, 10], (10, 20], (20, 50], (50, 100],
\* (100, inf), and a value outside all of them has no bin
PeriodBin(period) ==
    IF period <= 0 THEN "NaN"
    ELSE IF period <= 5 THEN Labels[1]
    ELSE IF period <= 10 THEN Labels[2]
    ELSE IF period <= 20 THEN Labels[3]
    ELSE IF period <= 50 THEN Labels[4]
    ELSE IF period <= 100 THEN Labels[5]
    ELSE Labels[6]

\* line 105: the size of the group (event_type, period_bin); events without a
\* bin are in no group
GroupSize(dc_events, type, bin) ==
    Cardinality({k \in 1..Len(dc_events.event_type) :
                    /\ dc_events.event_type[k] = type
                    /\ PeriodBin(dc_events.event_period[k]) = bin})

\* analyze_event_distribution, lines 93-106: count and percentage of every
\* (event_type, period_bin); a group that is not in the table has count 0,
\* and the percentages of a type whose counts sum to 0 are not-a-number
AnalyzeEventDistribution(df) ==
    LET dc_events == DcEvents(df)
        bins      == {Labels[k] : k \in 1..Len(Labels)}
        total(t)  == SumOf([k \in 1..Len(Labels) |-> GroupSize(dc_events, t, Labels[k])])
    IN  [g \in EventTypes \X bins |->
            [count      |-> GroupSize(dc_events, g[1], g[2]),
             percentage |-> DDiv(DInt(GroupSize(dc_events, g[1], g[2])),
                                 DInt(total(g[1])))]]

EventDistribution ==
    /\ analysis = NoAnalysis
    /\ analysis' = [fn |-> "analyze_event_distribution", out |-> AnalyzeEventDistribution(df_dc)]
    /\ UNCHANGED <<detector, df_dc, manager, last_call>>

\* a period of exactly 3 not flagged
ShortPeriodBelow3(period) == period < 3

\* line 407: dc_events['event_period'] <= 3
ShortPeriod(period) == period <= 3

\* line 409: (short_period != short_period.shift()).cumsum(); the first event
\* differs from the missing value shifted in before it
ConsecutiveGroup(short_period) ==
    [k \in 1..Len(short_period) |->
        Cardinality({j \in 1..k : j = 1 \/ short_period[j] # short_period[j - 1]})]

\* line 411: the sizes of the groups of the short events, in group order
ConsecutiveRuns(short_period) ==
    LET group  == ConsecutiveGroup(short_period)
        groups == SelectSeq([g \in 1..Len(short_period) |-> g],
                            LAMBDA g : \E k \in 1..Len(short_period) :
                                           short_period[k] /\ group[k] = g)
    IN  [n \in 1..Len(groups) |->
            Cardinality({k \in 1..Len(short_period) :
                            short_period[k] /\ group[k] = groups[n]})]

\* analyze_consecutive_events, lines 405-419
AnalyzeConsecutiveEvents(df) ==
    LET dc_events        == DcEvents(df)
        short_period     == [k \in 1..Len(dc_events.event_period) |->
                                ShortPeriod(dc_events.event_period[k])]
        consecutive_runs == ConsecutiveRuns(short_period)
    IN  [total_short_period_events |-> CountOf(short_period, TRUE),
         pct_short_period          |-> DDiv(DInt(CountOf(short_period, TRUE)),
                                            DInt(Len(short_period))),
         max_consecutive_short     |-> IF Len(consecutive_runs) > 0
                                       THEN MaxOf(consecutive_runs) ELSE 0,
         mean_consecutive_short    |-> IF Len(consecutive_runs) > 0
                                       THEN MeanOf(consecutive_runs) ELSE DZero,
         total_runs                |-> Len(consecutive_runs)]

ConsecutiveEvents ==
    /\ analysis = NoAnalysis
    /\ analysis' = [fn |-> "analyze_consecutive_events", out |-> AnalyzeConsecutiveEvents(df_dc)]
    /\ UNCHANGED <<detector, df_dc, manager, last_call>>

\* the largest window_days of analyze_event_clustering
MaxWindow == 3

\* a window that also takes the row window_days before the current one
WindowStartOneBefore(row, window_days) == Max(0, row - window_days)

\* rolling(window=window_days): the window of row row starts window_days - 1
\* rows before it, or at row 0
WindowStart(row, window_days) == Max(0, row - window_days + 1)

\* line 313: is_event
IsEventColumn(df) ==
    [k \in 1..Len(df.event_type) |-> IF df.event_type[k] # "no_event" THEN 1 ELSE 0]

\* line 315: rolling(window=window_days, min_periods=1).sum(), a float column
EventDensity(is_event, window_days) ==
    [k \in 1..Len(is_event) |->
        DInt(SumOf(SubSeq(is_event, WindowStart(k - 1, window_days) + 1, k)))]

\* the column sorted in ascending order
RECURSIVE SortedFloats(_)
SortedFloats(col) ==
    IF col = <<>> THEN <<>>
    ELSE LET k == CHOOSE k \in 1..Len(col) : \A j \in 1..Len(col) : DLeq(col[k], col[j])
         IN  <<col[k]>> \o SortedFloats(SubSeq(col, 1, k - 1) \o SubSeq(col, k + 1, Len(col)))

\* line 317: Series.quantile(0.75), linear interpolation between the two order
\* statistics around position 0.75 * (n - 1); not-a-number on an empty column
Quantile75(col) ==
    IF col = <<>> THEN NaN
    ELSE LET sorted == SortedFloats(col)
             below  == (3 * (Len(col) - 1)) \div 4
             gamma  == Dec((3 * (Len(col) - 1)) % 4, 4)
             lo     == sorted[below + 1]
             hi     == sorted[Min(below + 2, Len(col))]
         IN  DAdd(lo, DMul(DSub(hi, lo), gamma))

\* analyze_event_clustering, lines 312-318
AnalyzeEventClustering(df, window_days) ==
    LET is_event           == IsEventColumn(df)
        event_density      == EventDensity(is_event, window_days)
        high_vol_threshold == Quantile75(event_density)
    IN  [is_event               |-> is_event,
         event_density          |-> event_density,
         high_volatility_period |-> [k \in 1..Len(is_event) |->
                                       DGeq(event_density[k], high_vol_threshold)]]

EventClustering(window_days) ==
    /\ analysis = NoAnalysis
    /\ analysis' = [fn          |-> "analyze_event_clustering",
                    window_days |-> window_days,
                    out         |-> AnalyzeEventClustering(df_dc, window_days)]
    /\ UNCHANGED <<detector, df_dc, manager, last_call>>

\* the tracker started at 1.0 whatever the argument
InitialPositionInvested(initial_position) == DOne

\* line 47: position = 1.0 if initial_position == 'invested' else 0.0
InitialPosition(initial_position) ==
    IF initial_position = "invested" THEN DOne ELSE DZero

\* a loop that buys on every dc_up and sells on every dc_down, whatever the
\* position
RECURSIVE SignalRowsAnyPosition(_, _, _)
SignalRowsAnyPosition(event_type, k, position) ==
    IF k > Len(event_type) THEN <<>>
    ELSE IF event_type[k] = "dc_up"
         THEN <<<<"buy", DOne>>>> \o SignalRowsAnyPosition(event_type, k + 1, DOne)
    ELSE IF event_type[k] = "dc_down"
         THEN <<<<"sell", DZero>>>> \o SignalRowsAnyPosition(event_type, k + 1, DZero)
    ELSE <<<<"hold", position>>>> \o SignalRowsAnyPosition(event_type, k + 1, position)

\* lines 49-62: the loop of generate_dc_signals from row k on, as the
\* <<signal, position>> of each row
RECURSIVE SignalRows(_, _, _)
SignalRows(event_type, k, position) ==
    IF k > Len(event_type) THEN <<>>
    ELSE IF event_type[k] = "dc_up" /\ position = DZero
         THEN <<<<"buy", DOne>>>> \o SignalRows(event_type, k + 1, DOne)
    ELSE IF event_type[k] = "dc_down" /\ position = DOne
         THEN <<<<"sell", DZero>>>> \o SignalRows(event_type, k + 1, DZero)
    ELSE <<<<"hold", position>>>> \o SignalRows(event_type, k + 1, position)

\* len(df)
NRows(df) == Len(df[CHOOSE c \in DOMAIN df : TRUE])

\* generate_dc_signals, lines 40-69: the signal and position columns added;
\* df_signals.iloc[i]['event_type'] of line 50 raises on the first row of a
\* frame without the DC columns
GenerateDcSignals(df, initial_position) ==
    LET event_type == IF "event_type" \in DOMAIN df THEN df.event_type ELSE <<>>
        rows       == SignalRows(event_type, 1, InitialPosition(initial_position))
    IN  IF "event_type" \notin DOMAIN df /\ NRows(df) > 0 THEN [raised |-> "KeyError"]
        ELSE [raised   |-> "none",
              signal   |-> [k \in 1..Len(rows) |-> rows[k][1]],
              position |-> [k \in 1..Len(rows) |-> rows[k][2]]]

DcSignals(initial_position) ==
    /\ analysis = NoAnalysis
    /\ analysis' = [fn               |-> "generate_dc_signals",
                    initial_position |-> initial_position,
                    out              |-> GenerateDcSignals(df_dc, initial_position)]
    /\ UNCHANGED <<detector, df_dc, manager, last_call>>

\* the thresholds argument of analyze_threshold_sensitivity, in input order
ThresholdList == <<Dec(2, 100), Dec(5, 10)>>

\* lines 198-215: the summary row of one threshold; threshold_pct and the
\* change_pct statistics are left out
SensitivityRow(tau, df) ==
    LET dc_events     == DcEvents(df)
        event_periods == EventPeriods(dc_events)
    IN  [threshold         |-> tau,
         total_events      |-> Len(dc_events.event_type),
         up_events         |-> CountOf(dc_events.event_type, "dc_up"),
         down_events       |-> CountOf(dc_events.event_type, "dc_down"),
         mean_event_period |-> IF Len(event_periods) > 0 THEN MeanOf(event_periods)
                               ELSE DZero,
         median_event_period |-> IF Len(event_periods) > 0 THEN MedianOf(event_periods)
                                 ELSE DZero]

\* line 201: if n_events > 0
Appended(n_events) == n_events > 0

\* lines 188-217: results, one threshold after the other; frame[tau] is the
\* frame transform_to_dc_events returns for the series at tau
RECURSIVE SensitivityResults(_, _)
SensitivityResults(thresholds, frame) ==
    IF thresholds = <<>> THEN <<>>
    ELSE LET row == SensitivityRow(Head(thresholds), frame[Head(thresholds)])
         IN  (IF Appended(row.total_events) THEN <<row>> ELSE <<>>)
                 \o SensitivityResults(Tail(thresholds), frame)

\* analyze_threshold_sensitivity: df_dc['event_type'] of line 198 raises on a
\* frame without the DC columns
AnalyzeThresholdSensitivity(thresholds, frame) ==
    IF \E k \in 1..Len(thresholds) : "event_type" \notin DOMAIN frame[thresholds[k]]
    THEN [raised |-> "KeyError"]
    ELSE [raised |-> "none", df_sensitivity |-> SensitivityResults(thresholds, frame)]

\* the sweep of analyze_threshold_sensitivity over df_prices, once the
\* detector has returned for each threshold of the list
ThresholdSensitivity ==
    /\ pc = "idle"
    /\ analysis = NoAnalysis
    /\ \A k \in 1..Len(ThresholdList) : returned[ThresholdList[k]] # {}
    /\ analysis' =
          [fn  |-> "analyze_threshold_sensitivity",
           out |-> AnalyzeThresholdSensitivity(ThresholdList,
                       [tau \in Thresholds |-> CHOOSE r \in returned[tau] : TRUE])]
    /\ UNCHANGED <<detector, df_dc, manager, last_call>>

Next ==
    \/ \E tau \in Thresholds : CallInsufficient(tau)
    \/ \E tau \in Thresholds : CallStart(tau)
    \/ DetectStep
    \/ Annotate
    \/ ThresholdSensitivity

Spec == Init /\ [][Next]_vars

\* rows of a series with malformed timestamps
MaxMalformedLen == 2

\* the orders of the timestamps 0..n-1 other than the increasing one
OutOfOrder(n) ==
    {index \in [1..n -> 0..(n - 1)] :
        /\ \A j, k \in 1..n : j # k => index[j] # index[k]
        /\ index # RangeIndex(n)}

\* n timestamps of 0..n-1 with one that is carried by several rows
Repeating(n) ==
    {index \in [1..n -> 0..(n - 1)] : \E j, k \in 1..n : j # k /\ index[j] = index[k]}

\* price frames with timestamps out of order or repeated
MalformedFrames ==
    {Frame(index, s) : index \in OutOfOrder(MaxMalformedLen) \cup Repeating(MaxMalformedLen),
                       s \in [1..MaxMalformedLen -> Prices \cup {NaN}]}

\* a call on a frame with malformed timestamps
MalformedInit ==
    /\ df_prices \in MalformedFrames
    /\ threshold = DefaultThreshold
    /\ pc = "idle"
    /\ prices = <<>>
    /\ i = 0
    /\ mode = "up"
    /\ extreme_price = NaN
    /\ last_event_idx = 0
    /\ df_result = df_prices
    /\ returned = [t \in Thresholds |-> {}]
    /\ recalled = FALSE
    /\ df_dc = NoFrame
    /\ analysis = NoAnalysis
    /\ manager = NewManager
    /\ last_call = NoCall

MalformedSpec == MalformedInit /\ [][Next]_vars

AnalyzerNext ==
    \/ BasicStatistics
    \/ EventDistribution
    \/ ConsecutiveEvents
    \/ \E window_days \in 1..MaxWindow : EventClustering(window_days)
    \/ \E initial_position \in {"cash", "invested"} : DcSignals(initial_position)

AnalyzerSpec == AnalyzerInit /\ [][AnalyzerNext]_vars

\* 2.0 ** -54, a threshold of (0, 1) that binary64 absorbs: 1 + threshold and
\* 1 - threshold both round to 1
AbsorbedThreshold == DDiv(DOne, DMul(DInt(Pow2(27)), DInt(Pow2(27))))

AbsorbedThresholds == {AbsorbedThreshold}

\* calls with an absorbed threshold on the integer series
AbsorbedInit ==
    /\ df_prices \in {Frame(RangeIndex(Len(s)), s) : s \in SeqsUpTo(Prices \cup {NaN}, MaxLen)}
    /\ threshold = DefaultThreshold
    /\ pc = "idle"
    /\ prices = <<>>
    /\ i = 0
    /\ mode = "up"
    /\ extreme_price = NaN
    /\ last_event_idx = 0
    /\ df_result = df_prices
    /\ returned = [t \in AbsorbedThresholds |-> {}]
    /\ recalled = FALSE
    /\ df_dc = NoFrame
    /\ analysis = NoAnalysis
    /\ manager = NewManager
    /\ last_call = NoCall

AbsorbedNext ==
    \/ \E tau \in AbsorbedThresholds : CallInsufficient(tau)
    \/ \E tau \in AbsorbedThresholds : CallStart(tau)
    \/ DetectStep
    \/ Annotate

AbsorbedSpec == AbsorbedInit /\ [][AbsorbedNext]_vars

\* lines 63-94: the loop from the k-th valid observation on
RECURSIVE RunLoop(_, _, _, _)
RunLoop(s, items, k, tau) ==
    IF k >= Len(items) THEN s
    ELSE RunLoop(LoopBody(s, k, items[k + 1][1], items[k + 1][2], tau), items, k + 1, tau)

\* lines 54-61: the three new columns and the initial detector state
Started(df, items) ==
    [df_result      |-> [Index         |-> df.Index,
                         Close         |-> df.Close,
                         event_type    |-> Const(Len(df.Close), "no_event"),
                         extreme_price |-> Const(Len(df.Close), NaN),
                         change_pct    |-> Const(Len(df.Close), NaN)],
     extreme_price  |-> StartExtreme(items),
     mode           |-> StartMode,
     last_event_idx |-> 0]

\* lines 96-110: fillna and the event_period column, or the exception of
\* line 108
Annotated(df) ==
    IF EventPeriodRaised(df.Index, df.event_type) # "none"
    THEN [raised |-> EventPeriodRaised(df.Index, df.event_type)]
    ELSE [Index         |-> df.Index,
          Close         |-> df.Close,
          event_type    |-> df.event_type,
          extreme_price |-> FillNa(df.extreme_price),
          change_pct    |-> FillNa(df.change_pct),
          event_period  |-> EventPeriod(df.Index, df.event_type)]

\* lines 48-123: the frame returned for the valid observations items of df
Detected(df, items, tau) ==
    IF Len(items) < 2 THEN df
    ELSE Annotated(RunLoop(Started(df, items), items, 0, tau).df_result)

\* transform_to_dc_events, lines 45-123, as a function of the frame and the
\* threshold: the frame returned, or the exception raised
TransformToDcEvents(df, tau) == Detected(df, Items(df.Index, DropNa(df.Close, 0)), tau)

\* the pipeline of the repository: the detector, then one analysis function
\* on the frame it returned.  calculate_basic_statistics on the frame of the
\* last call
ResultStatistics ==
    /\ pc = "idle"
    /\ analysis = NoAnalysis
    /\ returned[threshold] # {}
    /\ df_dc' = df_result
    /\ analysis' = [fn |-> "calculate_basic_statistics", out |-> CalculateBasicStatistics(df_result)]
    /\ UNCHANGED <<detector, manager, last_call>>

\* generate_dc_signals on the frame of the last call
ResultSignals(initial_position) ==
    /\ pc = "idle"
    /\ analysis = NoAnalysis
    /\ returned[threshold] # {}
    /\ df_dc' = df_result
    /\ analysis' = [fn               |-> "generate_dc_signals",
                    initial_position |-> initial_position,
                    out              |-> GenerateDcSignals(df_result, initial_position)]
    /\ UNCHANGED <<detector, manager, last_call>>

PipelineNext ==
    \/ \E tau \in Thresholds : analysis = NoAnalysis /\ CallInsufficient(tau)
    \/ \E tau \in Thresholds : analysis = NoAnalysis /\ CallStart(tau)
    \/ DetectStep
    \/ Annotate
    \/ ThresholdSensitivity
    \/ ResultStatistics
    \/ \E initial_position \in {"cash", "invested"} : ResultSignals(initial_position)

PipelineSpec == Init /\ [][PipelineNext]_vars

-----------------------------------------------------------------------------
(* run_simple_backtest: src/src/backtesting/simple_backtest.py.  df_dc is  *)
(* the frame of signals handed to the backtest, analysis its result.       *)

\* rows of a frame of signals
MaxSignalRows == 3

Signals == {"buy", "sell", "hold"}

\* positive prices of the backtest: 2.0 and 3.0
BacktestPrices == {DInt(2), DInt(3)}

\* initial_capital: the default 10000.0, and 1.0
Capitals == {DInt(10000), DOne}

\* transaction_cost: 0.0, the default 0.001, 0.5 and 1.0
TransactionCosts == {DZero, Dec(1, 1000), Dec(5, 10), DOne}

\* the frame with the given <<signal, price>> rows
SignalFrameOf(rows) ==
    [signal |-> [k \in 1..Len(rows) |-> rows[k][1]],
     Close  |-> [k \in 1..Len(rows) |-> rows[k][2]]]

SignalFrames == {SignalFrameOf(rows) : rows \in SeqsUpTo(Signals \X BacktestPrices, MaxSignalRows)}

\* the cash of line 61 left as it was before the buy
CashAfterBuyKept(cash) == cash

\* line 61: cash = 0.0
CashAfterBuy(cash) == DZero

\* lines 57-63: buy shares with all cash
Bought(price, cash, shares, cost) ==
    [cash       |-> CashAfterBuy(cash),
     shares     |-> DAdd(shares, DDiv(DSub(cash, cost), price)),
     trade_cost |-> cost]

\* lines 68-73: sell all shares
Sold(proceeds, cost) ==
    [cash |-> DSub(proceeds, cost), shares |-> DZero, trade_cost |-> cost]

\* lines 67-68: proceeds = shares * price, cost = proceeds * transaction_cost
SoldFor(proceeds, transaction_cost) == Sold(proceeds, DMul(proceeds, transaction_cost))

\* lines 76-80: the values written on the row
Written(after, price) ==
    [cash            |-> after.cash,
     shares          |-> after.shares,
     portfolio_value |-> DAdd(after.cash, DMul(after.shares, price)),
     trade_cost      |-> after.trade_cost]

\* lines 52-80: the body of the loop for one row, from the cash and shares
\* before the row to the values written on the row; trade_cost keeps the 0.0
\* of line 46 when no branch is taken
BacktestRow(signal, price, cash, shares, transaction_cost) ==
    Written(IF signal = "buy" /\ DGt(cash, DZero)
                THEN Bought(price, cash, shares, DMul(cash, transaction_cost))
            ELSE IF signal = "sell" /\ DGt(shares, DZero)
                THEN SoldFor(DMul(shares, price), transaction_cost)
            ELSE [cash |-> cash, shares |-> shares, trade_cost |-> DZero],
            price)

RECURSIVE BacktestRows(_, _, _, _, _)

\* the row written, then the loop from the next row on with its cash and shares
Continued(df, k, row, transaction_cost) ==
    <<row>> \o BacktestRows(df, k + 1, row.cash, row.shares, transaction_cost)

\* lines 48-80: the loop from row k on, as the values written on each row
BacktestRows(df, k, cash, shares, transaction_cost) ==
    IF k > Len(df.signal) THEN <<>>
    ELSE Continued(df, k,
                   BacktestRow(df.signal[k], df.Close[k], cash, shares, transaction_cost),
                   transaction_cost)

\* line 83: Series.pct_change(), each value over the one before, minus 1; the
\* first row has no value before it
PctChange(col) ==
    [k \in 1..Len(col) |->
        IF k = 1 THEN NaN ELSE DSub(DDiv(col[k], col[k - 1]), DOne)]

\* the columns of the rows written, and strategy_returns of line 83
BacktestColumns(rows) ==
    [raised           |-> "none",
     cash             |-> [k \in 1..Len(rows) |-> rows[k].cash],
     shares           |-> [k \in 1..Len(rows) |-> rows[k].shares],
     portfolio_value  |-> [k \in 1..Len(rows) |-> rows[k].portfolio_value],
     trade_cost       |-> [k \in 1..Len(rows) |-> rows[k].trade_cost],
     strategy_returns |-> PctChange([k \in 1..Len(rows) |-> rows[k].portfolio_value])]

\* run_simple_backtest, lines 40-89: the cash, shares, portfolio_value,
\* trade_cost and strategy_returns columns added to the frame returned.  On a
\* frame with no rows, portfolio_value.iloc[-1] of line 86 raises IndexError
\* and nothing is returned
RunSimpleBacktest(df_signals, initial_capital, transaction_cost) ==
    IF Len(df_signals.signal) = 0 THEN [raised |-> "IndexError"]
    ELSE BacktestColumns(BacktestRows(df_signals, 1, initial_capital, DZero, transaction_cost))

\* the state of the detector while the backtest runs
BacktestInit ==
    /\ df_prices = Frame(<<>>, <<>>)
    /\ threshold = DefaultThreshold
    /\ pc = "idle"
    /\ prices = <<>>
    /\ i = 0
    /\ mode = "up"
    /\ extreme_price = NaN
    /\ last_event_idx = 0
    /\ df_result = df_prices
    /\ returned = [t \in Thresholds |-> {}]
    /\ recalled = FALSE
    /\ df_dc \in SignalFrames
    /\ analysis = NoAnalysis
    /\ manager = NewManager
    /\ last_call = NoCall

SimpleBacktest(initial_capital, transaction_cost) ==
    /\ analysis = NoAnalysis
    /\ analysis' = [fn               |-> "run_simple_backtest",
                    initial_capital  |-> initial_capital,
                    transaction_cost |-> transaction_cost,
                    out              |-> RunSimpleBacktest(df_dc, initial_capital, transaction_cost)]
    /\ UNCHANGED <<detector, df_dc, manager, last_call>>

BacktestNext ==
    \E initial_capital \in Capitals, transaction_cost \in TransactionCosts :
        SimpleBacktest(initial_capital, transaction_cost)

BacktestSpec == BacktestInit /\ [][BacktestNext]_vars

-----------------------------------------------------------------------------
(* DCModelManager: src/src/dc_model_manager.py.  manager holds the four    *)
(* fields of the object; a field is None or Some(value).                   *)

\* ticker symbols
Tickers == {"ITUB4.SA", "PETR4.SA"}

\* price files: two series that confirm events, and one with a single valid
\* price, for which transform_to_dc_events returns the copy without the DC
\* columns
HistPrices ==
    {Frame(RangeIndex(3), <<DInt(2), DInt(3), DInt(2)>>),
     Frame(RangeIndex(3), <<DInt(1), DInt(2), DInt(1)>>),
     Frame(RangeIndex(3), <<NaN, DInt(1), NaN>>)}

\* what collect_stock_data returns (data_collector.py lines 65, 84, 107, 111)
\* and what pd.read_parquet then finds in the file: the collection fails
\* (filepath None), the file has fewer rows than min_valid_rows, the file
\* cannot be read, or the file holds a price frame
Collections ==
    {[filepath |-> None, is_valid |-> FALSE, parquet |-> None]}
        \cup [filepath : {Some("file")}, is_valid : BOOLEAN,
              parquet : {None} \cup {Some(df) : df \in HistPrices}]

\* "dc_default_threshold": 0.02
DcDefaultThreshold == Dec(2, 100)

\* the threshold argument of run_dc_transform
ThresholdArguments == {None} \cup {Some(tau) : tau \in Thresholds}

\* a failing load that has already stored the ticker
FailedLoadTickerStored(m, ticker) == [m EXCEPT !.current_ticker = Some(ticker)]

\* lines 82-101: the three raises come before the assignments of lines
\* 103-106; the object is as it was
FailedLoad(m, ticker) == m

\* the DC result of the previous ticker kept across a load
KeptOnLoad(field) == field

\* lines 105-106: self.df_dc_events = None, self.current_threshold = None
ClearedOnLoad(field) == None

\* load_ticker_data, lines 71-114
LoadTickerData(ticker, collected) ==
    LET failure == IF collected.filepath = None THEN "collection failed"
                   ELSE IF ~collected.is_valid THEN "insufficient data"
                   ELSE IF collected.parquet = None THEN "unreadable file"
                   ELSE "none"
    IN  /\ manager' = IF failure # "none" THEN FailedLoad(manager, ticker)
                      ELSE [current_ticker    |-> Some(ticker),
                            df_hist_price     |-> collected.parquet,
                            df_dc_events      |-> ClearedOnLoad(manager.df_dc_events),
                            current_threshold |-> ClearedOnLoad(manager.current_threshold)]
        /\ last_call' = [method          |-> "load_ticker_data",
                         ticker          |-> ticker,
                         raised          |-> IF failure # "none" THEN "RuntimeError" ELSE "none",
                         failure         |-> failure,
                         had_dc_events   |-> manager.df_dc_events # None,
                         transform_calls |-> 0]
        /\ UNCHANGED <<detector, df_dc, analysis>>

\* a rejected call that has already stored the threshold
RejectedRunThresholdStored(m, effective_threshold) ==
    [m EXCEPT !.current_threshold = Some(effective_threshold)]

\* lines 143-146: the raise comes before anything is assigned
RejectedRun(m, effective_threshold) == m

\* line 143: self.df_hist_price is None or self.current_ticker is None
NoDataLoaded(m) == m.df_hist_price = None \/ m.current_ticker = None

\* lines 148-152: the threshold argument, or the configured default
EffectiveThreshold(threshold_argument) ==
    IF threshold_argument # None THEN threshold_argument[1] ELSE DcDefaultThreshold

\* lines 159-180: an exception of transform_to_dc_events passes through
\* before anything is assigned; otherwise the result and the threshold are
\* stored, and df_dc["event_type"] of line 169 then raises on a frame without
\* the DC columns
RunStored(threshold_argument, effective_threshold, df_events) ==
    /\ manager' = IF "raised" \in DOMAIN df_events THEN manager
                  ELSE [manager EXCEPT !.df_dc_events = Some(df_events),
                                       !.current_threshold = Some(effective_threshold)]
    /\ last_call' = [method          |-> "run_dc_transform",
                     threshold       |-> threshold_argument,
                     raised          |-> IF "raised" \in DOMAIN df_events
                                             THEN df_events.raised
                                         ELSE IF "event_type" \notin DOMAIN df_events
                                             THEN "KeyError"
                                         ELSE "none",
                     transform_calls |-> 1]

\* lines 143-180, for the effective threshold of the call; transform_calls
\* counts the calls of transform_to_dc_events
RunOutcome(threshold_argument, effective_threshold) ==
    IF NoDataLoaded(manager)
    THEN /\ manager' = RejectedRun(manager, effective_threshold)
         /\ last_call' = [method          |-> "run_dc_transform",
                          threshold       |-> threshold_argument,
                          raised          |-> "RuntimeError",
                          transform_calls |-> 0]
    ELSE RunStored(threshold_argument, effective_threshold,
                   TransformToDcEvents(manager.df_hist_price[1], effective_threshold))

\* run_dc_transform, lines 143-180
RunDcTransform(threshold_argument) ==
    /\ RunOutcome(threshold_argument, EffectiveThreshold(threshold_argument))
    /\ UNCHANGED <<detector, df_dc, analysis>>

\* the state of the detector and the analysis outside the manager
ManagerInit ==
    /\ df_prices = Frame(<<>>, <<>>)
    /\ threshold = DefaultThreshold
    /\ pc = "idle"
    /\ prices = <<>>
    /\ i = 0
    /\ mode = "up"
    /\ extreme_price = NaN
    /\ last_event_idx = 0
    /\ df_result = df_prices
    /\ returned = [t \in Thresholds |-> {}]
    /\ recalled = FALSE
    /\ df_dc = NoFrame
    /\ analysis = NoAnalysis
    /\ manager = NewManager
    /\ last_call = NoCall

ManagerNext ==
    \/ \E ticker \in Tickers, collected \in Collections : LoadTickerData(ticker, collected)
    \/ \E threshold_argument \in ThresholdArguments : RunDcTransform(threshold_argument)

ManagerSpec == ManagerInit /\ [][ManagerNext]_vars

-----------------------------------------------------------------------------
(* Properties *)

\* the frames returned so far by calls with threshold tau
Returned(tau) == returned[tau]

ValidCount == Len(DropNa(df_prices.Close, 0))

HasColumn(df, c) == c \in DOMAIN df

IsEvent(t) == t # "no_event"

\* the confirmed event types in row order
ConfirmedTypes(event_type) == SelectSeq(event_type, IsEvent)

\* C1: the confirmed event types, in row order and ignoring no_event rows,
\* strictly alternate: no two consecutive confirmed events share a type.
\* Checked on the frame in every state, during detection and after the return.
C1_Alternation ==
    HasColumn(df_result, "event_type") =>
        LET types == ConfirmedTypes(df_result.event_type)
        IN  \A k \in 1..(Len(types) - 1) : types[k] # types[k + 1]

\* a returned frame with three confirmed events
C1_Witness ==
    /\ pc = "idle"
    /\ HasColumn(df_result, "event_period")
    /\ ConfirmedTypes(df_result.event_type) = <<"dc_up", "dc_down", "dc_up">>

\* C2: at every valid observation p with pre-observation reference ref:
\* in mode up the row is dc_up iff p >= ref*(1+tau), and then the row records
\* extreme_price = ref, the reference becomes p and the mode becomes down;
\* in mode down the row is dc_down iff p <= ref*(1-tau), and then the row
\* records extreme_price = ref, the reference becomes p and the mode becomes
\* up; in every other case the row is no_event and the mode is unchanged.
\* The two products are the source's float expressions.
C2_StepRule ==
    [][(pc = "detect" /\ i' = i + 1) =>
        LET timestamp == prices[i + 1][1]
            p         == prices[i + 1][2]
            ref       == extreme_price
            type      == At(df_result'.event_type, timestamp)
            up        == DCmp(p, DMul(ref, DAdd(DInt(1), threshold))) \in {0, 1}
            down      == DCmp(p, DMul(ref, DSub(DInt(1), threshold))) \in {-1, 0}
            confirmed == IF mode = "up" THEN up ELSE down
        IN  /\ type = (IF ~confirmed THEN "no_event"
                       ELSE IF mode = "up" THEN "dc_up" ELSE "dc_down")
            /\ confirmed =>
                  /\ At(df_result'.extreme_price, timestamp) = ref
                  /\ extreme_price' = p
                  /\ mode' = (IF mode = "up" THEN "down" ELSE "up")
            /\ ~confirmed => mode' = mode
      ]_vars

\* the observation just processed confirmed a dc_up exactly on the boundary
\* p = ref*(1+tau), and the detector now searches downwards from p
C2_Witness ==
    /\ pc = "detect"
    /\ i >= 1
    /\ LET timestamp == prices[i][1]
           p         == prices[i][2]
           ref       == At(df_result.extreme_price, timestamp)
       IN  /\ At(df_result.event_type, timestamp) = "dc_up"
           /\ p = DMul(ref, DAdd(DInt(1), threshold))
           /\ mode = "down"
           /\ extreme_price = p

\* C3: for [100,100,103,103,96,96,101] at tau = 0.02 the detector confirms
\* exactly 3 events: dc_up at row 2 with extreme_price 100, dc_down at row 4
\* with extreme_price 103, dc_up at row 6 with extreme_price 96; every other
\* row is no_event.
C3_Scenario ==
    df_prices.Close = Scenario =>
        \A r \in Returned(Dec(2, 100)) :
            /\ r.event_type = <<"no_event", "no_event", "dc_up", "no_event",
                                "dc_down", "no_event", "dc_up">>
            /\ r.extreme_price = <<DZero, DZero, DInt(100), DZero, DInt(103),
                                   DZero, DInt(96)>>

\* the scenario has been run at 2 % and has returned
C3_Witness ==
    /\ df_prices.Close = Scenario
    /\ pc = "idle"
    /\ Returned(Dec(2, 100)) # {}

\* C4: in the frame returned for a series with at least 2 valid prices,
\* event_period >= 0 on every row and event_period = 0 on every dc_up or
\* dc_down row.
C4_PeriodNonNegativeAndReset ==
    ValidCount >= 2 =>
        \A tau \in Thresholds : \A r \in Returned(tau) :
            /\ HasColumn(r, "event_period")
            /\ \A row \in Rows(r.Close) :
                  /\ At(r.event_period, row) >= 0
                  /\ IsEvent(At(r.event_type, row)) => At(r.event_period, row) = 0

\* a returned frame with two confirmed events, the second at least two rows
\* after the first
C4_Witness ==
    \E tau \in Thresholds : \E r \in Returned(tau) :
        /\ HasColumn(r, "event_period")
        /\ \E a, b \in Rows(r.Close) :
              /\ a + 1 < b
              /\ IsEvent(At(r.event_type, a))
              /\ IsEvent(At(r.event_type, b))
              /\ At(r.event_period, b) = 0

\* the row of the last confirmed event strictly before row, or -1
PrevEventBefore(event_type, row) ==
    LET earlier == {e \in Rows(event_type) : e < row /\ IsEvent(At(event_type, e))}
    IN  IF earlier = {} THEN -1 ELSE CHOOSE e \in earlier : \A f \in earlier : f <= e

\* dc_events['event_period'] of calculate_basic_statistics: the period each
\* confirmed event carries, as <<row, period>> pairs
EventPeriodsOfEvents(df) ==
    {<<row, At(df.event_period, row)>> : row \in EventIndices(df.event_type)}

\* C5: the period carried by each confirmed event equals its row index minus
\* the previous confirmed event's row index, and for the very first confirmed
\* event its absolute row index.
C5_EventCarriesDistanceToPrevious ==
    \A tau \in Thresholds : \A r \in Returned(tau) :
        HasColumn(r, "event_period") =>
            \A e \in EventPeriodsOfEvents(r) :
                LET prev == PrevEventBefore(r.event_type, e[1])
                IN  e[2] = (IF prev = -1 THEN e[1] ELSE e[1] - prev)

\* the single forward pass of section 4.2: a running cursor on the last event
RECURSIVE CursorPass(_, _, _)
CursorPass(event_type, row, cursor) ==
    IF row >= Len(event_type) THEN <<>>
    ELSE LET c == IF IsEvent(At(event_type, row)) THEN row ELSE cursor
         IN  <<(IF c = -1 THEN row ELSE row - c)>> \o CursorPass(event_type, row + 1, c)

\* C6: event_period[i] = i - j with j the largest row index <= i holding a
\* confirmed event, and event_period[i] = i when there is none; the per-row
\* re-scan of the source and a single forward pass with a running last-event
\* cursor give the same value on every row.
C6_PeriodDefinitionAndCursorPass ==
    \A tau \in Thresholds : \A r \in Returned(tau) :
        HasColumn(r, "event_period") =>
            /\ \A row \in Rows(r.Close) :
                  LET upto == {e \in 0..row : IsEvent(At(r.event_type, e))}
                  IN  At(r.event_period, row) =
                         (IF upto = {} THEN row
                          ELSE row - (CHOOSE j \in upto : \A e \in upto : e <= j))
            /\ r.event_period = CursorPass(r.event_type, 0, -1)

\* a returned frame with no_event rows before, between and after two events
C6_Witness ==
    \E tau \in Thresholds : \E r \in Returned(tau) :
        /\ HasColumn(r, "event_period")
        /\ \E a, b \in Rows(r.Close) :
              /\ a < b
              /\ IsEvent(At(r.event_type, a))
              /\ IsEvent(At(r.event_type, b))
              /\ a >= 1 /\ At(r.event_period, a - 1) = a - 1
              /\ b + 1 < Len(r.Close)
              /\ At(r.event_period, b + 1) = 1

\* C7 as stated: a row has event_period = 0 if and only if it is a confirmed
\* event, and on every no_event row after row 0 the value is the previous
\* row's value plus 1.
C7_ZeroExactlyOnEvents ==
    \A tau \in Thresholds : \A r \in Returned(tau) :
        HasColumn(r, "event_period") =>
            \A row \in Rows(r.Close) :
                /\ (At(r.event_period, row) = 0) <=> IsEvent(At(r.event_type, row))
                /\ (row > 0 /\ ~IsEvent(At(r.event_type, row))) =>
                       At(r.event_period, row) = At(r.event_period, row - 1) + 1

\* C7 amended: row 0 has event_period 0, whether or not it is a confirmed
\* event; a row after row 0 has event_period = 0 if and only if it is a
\* confirmed event; on every no_event row after row 0 the value is the
\* previous row's value plus 1.
C7_ZeroExactlyOnEventsAfterRow0 ==
    \A tau \in Thresholds : \A r \in Returned(tau) :
        HasColumn(r, "event_period") =>
            \A row \in Rows(r.Close) :
                /\ row = 0 => At(r.event_period, row) = 0
                /\ row > 0 =>
                      ((At(r.event_period, row) = 0) <=> IsEvent(At(r.event_type, row)))
                /\ (row > 0 /\ ~IsEvent(At(r.event_type, row))) =>
                       At(r.event_period, row) = At(r.event_period, row - 1) + 1

\* a returned frame whose counter runs 0, 1, resets on an event, and runs again
C7_Witness ==
    \E tau \in Thresholds : \E r \in Returned(tau) :
        /\ HasColumn(r, "event_period")
        /\ Len(r.Close) >= 4
        /\ SubSeq(r.event_period, 1, 4) = <<0, 1, 0, 1>>
        /\ IsEvent(At(r.event_type, 2))

\* C8: for a series with fewer than 2 valid prices the call returns a frame in
\* which every row carries event_type = no_event.
C8_InsufficientDataAllNoEvent ==
    ValidCount < 2 =>
        \A tau \in Thresholds : \A r \in Returned(tau) :
            \A row \in Rows(r.Close) :
                /\ HasColumn(r, "event_type")
                /\ At(r.event_type, row) = "no_event"

\* C9: two calls on the same series and tau return identical frames, whatever
\* other calls ran before or between them, and the input series is left
\* unmodified.
C9_Deterministic ==
    /\ [](\A tau \in Thresholds : Cardinality(Returned(tau)) <= 1)
    /\ [][df_prices' = df_prices]_vars

\* a tau was called, another tau was called and gave another frame, and the
\* first tau was called again and has returned
C9_Witness ==
    /\ recalled
    /\ pc = "idle"
    /\ \E t1, t2 \in Thresholds :
          /\ t1 # t2
          /\ Returned(t1) # {}
          /\ Returned(t2) # {}
          /\ Returned(t1) # Returned(t2)
    /\ HasColumn(df_result, "event_type")
    /\ EventIndices(df_result.event_type) # {}

\* analyze_overshoot, line 352: change_pct.abs() - threshold
Overshoot(change_pct, tau) == DSub(DAbs(change_pct), tau)

\* C10: for positive prices, every dc_up row has change_pct >= tau > 0, every
\* dc_down row has change_pct <= -tau < 0, and the overshoot |change_pct| - tau
\* computed with the detection threshold is >= 0 for every confirmed event.
C10_ChangeBeyondThreshold ==
    \A tau \in Thresholds : \A r \in Returned(tau) :
        HasColumn(r, "change_pct") =>
            \A row \in Rows(r.Close) :
                LET c == At(r.change_pct, row)
                    t == At(r.event_type, row)
                IN  /\ t = "dc_up" => (DGeq(c, tau) /\ DGt(c, DZero))
                    /\ t = "dc_down" => (DLeq(c, DNeg(tau)) /\ DLt(c, DZero))
                    /\ IsEvent(t) => DGeq(Overshoot(c, tau), DZero)

\* the valid prices of rows from..to of a frame
ValidPricesIn(r, from, to) ==
    {At(r.Close, k) : k \in {k \in from..to : ~At(r.Close, k).nan}}

\* the reference a confirmation at row row tests against: the first valid
\* price, or the price of the previous confirmed event, moved to the running
\* minimum (searching upwards) or maximum (searching downwards) of the valid
\* prices up to the row before
ReferenceAt(r, row) ==
    LET prev == PrevEventBefore(r.event_type, row)
        seen == ValidPricesIn(r, (IF prev = -1 THEN 0 ELSE prev), row - 1)
    IN  IF At(r.event_type, row) = "dc_up"
        THEN CHOOSE x \in seen : \A y \in seen : DLeq(x, y)
        ELSE CHOOSE x \in seen : \A y \in seen : DGeq(x, y)

\* C11: in the frame returned for a series with at least 2 valid positive
\* prices, every no_event row has extreme_price = 0 and change_pct = 0, and
\* every confirmed-event row has a non-zero extreme_price equal to the
\* reference price that triggered the confirmation.
C11_SentinelOnlyOffEvents ==
    ValidCount >= 2 =>
        \A tau \in Thresholds : \A r \in Returned(tau) :
            \A row \in Rows(r.Close) :
                IF IsEvent(At(r.event_type, row))
                THEN /\ At(r.extreme_price, row) # DZero
                     /\ At(r.extreme_price, row) = ReferenceAt(r, row)
                ELSE /\ At(r.extreme_price, row) = DZero
                     /\ At(r.change_pct, row) = DZero

\* a returned frame with a no_event row and with an event whose reference is a
\* running minimum below the first price
C11_Witness ==
    \E tau \in Thresholds : \E r \in Returned(tau) :
        /\ HasColumn(r, "event_period")
        /\ \E a, b \in Rows(r.Close) :
              /\ ~IsEvent(At(r.event_type, a))
              /\ At(r.extreme_price, a) = DZero
              /\ At(r.event_type, b) = "dc_up"
              /\ ~At(r.Close, 0).nan
              /\ DLt(At(r.extreme_price, b), At(r.Close, 0))

\* C12: calculate_basic_statistics reports total_events = up_events +
\* down_events and up_down_ratio = up_events / down_events whenever
\* down_events > 0 (2 up and 1 down give 2.0), and reports up_down_ratio as
\* not-a-number, without raising, when down_events = 0.
C12_TotalsAndRatio ==
    analysis.fn = "calculate_basic_statistics" =>
        LET n_up   == CountOf(df_dc.event_type, "dc_up")
            n_down == CountOf(df_dc.event_type, "dc_down")
            stats  == analysis.out
        IN  /\ stats.raised = "none"
            /\ stats.total_events = stats.up_events + stats.down_events
            /\ stats.up_events = n_up
            /\ stats.down_events = n_down
            /\ n_down > 0 => stats.up_down_ratio = DDiv(DInt(n_up), DInt(n_down))
            /\ (n_up = 2 /\ n_down = 1) => stats.up_down_ratio = DInt(2)
            /\ n_down = 0 => stats.up_down_ratio = NaN

\* C13: when the list of event periods used for the period statistics is
\* empty, calculate_basic_statistics reports the event-period mean, min and
\* max as not-a-number and raises no error.
C13_EmptyPeriodsAreNaN ==
    analysis.fn = "calculate_basic_statistics" =>
        LET periods == SelectSeq(DcEvents(df_dc).event_period, LAMBDA x : x > 0)
            stats   == analysis.out
        IN  periods = <<>> =>
                /\ stats.raised = "none"
                /\ stats.mean_event_period = NaN
                /\ stats.min_event_period = NaN
                /\ stats.max_event_period = NaN

\* C14: analyze_threshold_sensitivity returns a table with exactly one summary
\* row per threshold of the input list, in input order, for every price
\* series, including thresholds at which the detector confirms no event.
C14_OneRowPerThreshold ==
    analysis.fn = "analyze_threshold_sensitivity" =>
        /\ analysis.out.raised = "none"
        /\ Len(analysis.out.df_sensitivity) = Len(ThresholdList)
        /\ \A k \in 1..Len(ThresholdList) :
              analysis.out.df_sensitivity[k].threshold = ThresholdList[k]

\* the number of confirmed events of a returned frame
EventCount(r) ==
    IF HasColumn(r, "event_type") THEN Cardinality(EventIndices(r.event_type)) ELSE 0

\* C15: for every price series and every two thresholds tau1 < tau2, the
\* number of confirmed events the detector produces at tau2 is less than or
\* equal to the number it produces at tau1; the summary rows of a sweep show
\* the same counts.
C15_MonotonicEventCount ==
    /\ \A tau1, tau2 \in Thresholds :
          DLt(tau1, tau2) =>
              \A r1 \in Returned(tau1) : \A r2 \in Returned(tau2) :
                  EventCount(r2) <= EventCount(r1)
    /\ (analysis.fn = "analyze_threshold_sensitivity" /\ analysis.out.raised = "none") =>
          \A row \in {analysis.out.df_sensitivity[k] :
                          k \in 1..Len(analysis.out.df_sensitivity)} :
              \A r \in Returned(row.threshold) : row.total_events = EventCount(r)

\* the sweep has run on a series with events at both thresholds, fewer at the
\* larger one
C15_Witness ==
    /\ analysis.fn = "analyze_threshold_sensitivity"
    /\ analysis.out.raised = "none"
    /\ Len(analysis.out.df_sensitivity) = 2
    /\ analysis.out.df_sensitivity[1].threshold = Dec(2, 100)
    /\ analysis.out.df_sensitivity[2].threshold = Dec(5, 10)
    /\ analysis.out.df_sensitivity[2].total_events >= 1
    /\ analysis.out.df_sensitivity[2].total_events
           < analysis.out.df_sensitivity[1].total_events

\* the bin the claim gives a period: 0-5 from 0 on
ClaimedBin(period) ==
    IF period <= 5 THEN "0-5"
    ELSE IF period <= 10 THEN "6-10"
    ELSE IF period <= 20 THEN "11-20"
    ELSE IF period <= 50 THEN "21-50"
    ELSE IF period <= 100 THEN "51-100"
    ELSE "100+"

\* the float sum of the percentages of a type over the bins from k on
RECURSIVE PercentageSum(_, _, _)
PercentageSum(distribution, type, k) ==
    IF k > Len(Labels) THEN DZero
    ELSE DAdd(distribution[<<type, Labels[k]>>].percentage,
              PercentageSum(distribution, type, k + 1))

\* C16: analyze_event_distribution places every confirmed event in exactly
\* one of the six period bins according to its event_period (a period of 0
\* falls in 0-5), so that for each event type the bin counts sum to the number
\* of events of that type and the within-type percentages sum to 1.
C16_EveryEventBinned ==
    analysis.fn = "analyze_event_distribution" =>
        \A type \in EventTypes :
            LET events == {k \in 1..Len(df_dc.event_type) : df_dc.event_type[k] = type}
            IN  /\ \A k \in 1..Len(Labels) :
                      analysis.out[<<type, Labels[k]>>].count =
                          Cardinality({e \in events :
                                          ClaimedBin(df_dc.event_period[e]) = Labels[k]})
                /\ SumOf([k \in 1..Len(Labels) |-> analysis.out[<<type, Labels[k]>>].count])
                       = Cardinality(events)
                /\ events # {} => PercentageSum(analysis.out, type, 1) = DOne

\* the maximal blocks of consecutive short events, as <<first, last>> positions
\* in the sequence of confirmed events
ShortBlocks(periods) ==
    {b \in (1..Len(periods)) \X (1..Len(periods)) :
        /\ b[1] <= b[2]
        /\ \A k \in b[1]..b[2] : periods[k] <= 3
        /\ b[1] = 1 \/ periods[b[1] - 1] > 3
        /\ b[2] = Len(periods) \/ periods[b[2] + 1] > 3}

\* C17: analyze_consecutive_events flags a confirmed event as short iff its
\* event_period <= 3, and, over the confirmed events in row order, total_runs
\* equals the number of maximal blocks of consecutive short events,
\* max_consecutive_short equals the length of the longest such block, and
\* both are 0 when no event is short.
C17_ShortRuns ==
    analysis.fn = "analyze_consecutive_events" =>
        LET periods == DcEvents(df_dc).event_period
            blocks  == ShortBlocks(periods)
            stats   == analysis.out
        IN  /\ stats.total_short_period_events =
                   Cardinality({k \in 1..Len(periods) : periods[k] <= 3})
            /\ stats.total_runs = Cardinality(blocks)
            /\ \A b \in blocks : b[2] - b[1] + 1 <= stats.max_consecutive_short
            /\ blocks # {} => \E b \in blocks : b[2] - b[1] + 1 = stats.max_consecutive_short
            /\ blocks = {} => (stats.total_runs = 0 /\ stats.max_consecutive_short = 0)

\* two runs of short events separated by an event that is not short
C17_Witness ==
    /\ analysis.fn = "analyze_consecutive_events"
    /\ analysis.out.total_runs = 2
    /\ analysis.out.total_short_period_events = 2
    /\ \E k \in 1..Len(df_dc.event_period) :
          df_dc.event_type[k] # "no_event" /\ df_dc.event_period[k] = 3

\* C18: for every row i and window size W >= 1, event_density[i] is the number
\* of confirmed-event rows among rows max(0, i-W+1)..i; the value is defined
\* on every row including the first W-1 rows, lies between 0 and min(W, i+1),
\* and differs from the previous row's value by at most 1.
C18_TrailingWindowCount ==
    analysis.fn = "analyze_event_clustering" =>
        LET W       == analysis.window_days
            density == analysis.out.event_density
        IN  /\ Len(density) = Len(df_dc.event_type)
            /\ \A row \in Rows(df_dc.event_type) :
                  LET from   == IF row - W + 1 > 0 THEN row - W + 1 ELSE 0
                      events == {r \in from..row : At(df_dc.event_type, r) # "no_event"}
                  IN  /\ ~At(density, row).nan
                      /\ At(density, row) = DInt(Cardinality(events))
                      /\ DGeq(At(density, row), DZero)
                      /\ DLeq(At(density, row), DInt(IF W < row + 1 THEN W ELSE row + 1))
                      /\ row > 0 =>
                            DLeq(DAbs(DSub(At(density, row), At(density, row - 1))), DOne)

\* a window of 2 rows sliding over three event rows: the first row is counted
\* alone and the third row no longer counts the first
C18_Witness ==
    /\ analysis.fn = "analyze_event_clustering"
    /\ analysis.window_days = 2
    /\ analysis.out.is_event = <<1, 1, 1>>
    /\ analysis.out.event_density = <<DInt(1), DInt(2), DInt(2)>>

\* C20: generate_dc_signals follows its documented strategy logic: a buy
\* signal is emitted only on rows whose event_type is dc_down and a sell
\* signal only on rows whose event_type is dc_up; all other rows are hold.
C20_DocumentedStrategy ==
    analysis.fn = "generate_dc_signals" =>
        \A k \in 1..Len(df_dc.event_type) :
            /\ analysis.out.signal[k] = "buy" => df_dc.event_type[k] = "dc_down"
            /\ analysis.out.signal[k] = "sell" => df_dc.event_type[k] = "dc_up"
            /\ df_dc.event_type[k] = "no_event" => analysis.out.signal[k] = "hold"

\* C19: given input with duplicate or non-monotonic timestamps, the detector
\* rejects the input before the state machine runs and produces no event
\* annotations for it: the detection loop is never entered and no annotated
\* frame is returned.
C19_MalformedRejected ==
    /\ pc # "detect"
    /\ \A tau \in Thresholds : \A r \in Returned(tau) : ~HasColumn(r, "event_type")

\* the lowest and the highest of a non-empty set of prices
LowestOf(seen) == CHOOSE x \in seen : \A y \in seen : DLeq(x, y)

HighestOf(seen) == CHOOSE x \in seen : \A y \in seen : DGeq(x, y)

\* the valid prices the loop has taken since the last confirmed event (its
\* own price included), or since the first one when there is none
SeenSinceEvent == {prices[k][2] : k \in (last_event_idx + 1)..Max(i, 1)}

\* C22: the threshold is measured from the unconfirmed running extreme.  While
\* the loop runs, the reference is the minimum (searching upwards) or maximum
\* (searching downwards) of the valid prices since the last confirmed event's
\* row; in every returned frame the extreme_price of a dc_up row is the
\* minimum, and of a dc_down row the maximum, of the valid prices from the
\* previous confirmed event's row (the first row when there is none) up to
\* the row before.
C22_RunningExtreme ==
    /\ pc = "detect" =>
          extreme_price = (IF mode = "up" THEN LowestOf(SeenSinceEvent)
                           ELSE HighestOf(SeenSinceEvent))
    /\ \A tau \in Thresholds : \A r \in Returned(tau) :
          HasColumn(r, "event_period") =>
              \A row \in EventIndices(r.event_type) :
                  LET prev == PrevEventBefore(r.event_type, row)
                      seen == ValidPricesIn(r, Max(prev, 0), row - 1)
                  IN  /\ seen # {}
                      /\ At(r.event_type, row) = "dc_up" =>
                             At(r.extreme_price, row) = LowestOf(seen)
                      /\ At(r.event_type, row) = "dc_down" =>
                             At(r.extreme_price, row) = HighestOf(seen)

\* a returned frame with a dc_down whose reference is a running maximum above
\* the price of the dc_up before it, and a dc_up whose reference is a running
\* minimum below the first price
C22_Witness ==
    \E tau \in Thresholds : \E r \in Returned(tau) :
        /\ HasColumn(r, "event_period")
        /\ \E a, b \in EventIndices(r.event_type) :
              /\ At(r.event_type, a) = "dc_up"
              /\ ~At(r.Close, 0).nan
              /\ DLt(At(r.extreme_price, a), At(r.Close, 0))
              /\ At(r.event_type, b) = "dc_down"
              /\ PrevEventBefore(r.event_type, b) = a
              /\ DGt(At(r.extreme_price, b), At(r.Close, a))

\* the event rows of a returned frame, in row order
EventRowsOf(r) ==
    SelectSeq([k \in 1..Len(r.event_type) |-> k - 1],
              LAMBDA row : IsEvent(At(r.event_type, row)))

\* C24: for positive prices and a threshold of (0, 1), the first confirmed
\* event of a detector run, if there is one, is dc_up and is not on row 0;
\* the number of dc_up events minus the number of dc_down events is 0 or 1;
\* and the number of confirmed events is at most the number of rows minus 1.
C24_FirstEventUpAfterRow0 ==
    \A tau \in DOMAIN returned : \A r \in Returned(tau) :
        HasColumn(r, "event_period") =>
            LET events == EventRowsOf(r)
                n_up   == CountOf(r.event_type, "dc_up")
                n_down == CountOf(r.event_type, "dc_down")
            IN  /\ events # <<>> =>
                      /\ At(r.event_type, events[1]) = "dc_up"
                      /\ events[1] # 0
                /\ n_up - n_down \in {0, 1}
                /\ Len(events) <= Len(r.Close) - 1

\* the rows of a frame with a price, in row order
ValidRows(df) ==
    SelectSeq([k \in 1..Len(df.Close) |-> k - 1], LAMBDA row : ~At(df.Close, row).nan)

\* the series with the missing-price rows removed; the rows keep their
\* timestamps
Compressed(df) ==
    LET rows == ValidRows(df)
    IN  Frame([j \in 1..Len(rows) |-> At(df.Index, rows[j])],
              [j \in 1..Len(rows) |-> At(df.Close, rows[j])])

\* C23: rows with a missing price are dropped before detection.  The loop
\* never takes a missing price; whenever a call returns a frame, the frame
\* has one row per input row, with the input's timestamps and prices; a row
\* with a missing price is no_event; and event_type, extreme_price and
\* change_pct on the valid rows equal those of the detector run on the series
\* with the missing-price rows removed.
C23_MissingRowsDropped ==
    [][/\ \A k \in 1..Len(prices') : ~prices'[k][2].nan
       /\ returned' # returned =>
             LET r     == df_result'
                 rows  == ValidRows(df_prices)
                 dense == TransformToDcEvents(Compressed(df_prices), threshold')
             IN  /\ r \in returned'[threshold']
                 /\ r.Index = df_prices.Index
                 /\ r.Close = df_prices.Close
                 /\ r = TransformToDcEvents(df_prices, threshold')
                 /\ HasColumn(r, "event_type") <=> HasColumn(dense, "event_type")
                 /\ HasColumn(r, "event_type") =>
                       /\ \A c \in {"event_type", "extreme_price", "change_pct", "event_period"} :
                             Len(r[c]) = Len(df_prices.Close)
                       /\ \A row \in Rows(r.Close) :
                             At(r.Close, row).nan => At(r.event_type, row) = "no_event"
                       /\ \A j \in 1..Len(rows) :
                             /\ At(r.event_type, rows[j]) = dense.event_type[j]
                             /\ At(r.extreme_price, rows[j]) = dense.extreme_price[j]
                             /\ At(r.change_pct, rows[j]) = dense.change_pct[j]
      ]_vars

\* a returned frame with a missing price between the first price and the
\* first confirmed event, and another between two confirmed events
C23_Witness ==
    \E tau \in Thresholds : \E r \in Returned(tau) :
        /\ HasColumn(r, "event_period")
        /\ \E n \in Rows(r.Close) :
              /\ n >= 1
              /\ At(r.Close, n).nan
              /\ EventIndices(r.event_type) \cap 0..n = {}
        /\ \E a, n, b \in Rows(r.Close) :
              /\ a < n /\ n < b
              /\ IsEvent(At(r.event_type, a))
              /\ At(r.Close, n).nan
              /\ IsEvent(At(r.event_type, b))

\* C25: on a frame returned by the detector with its annotation, every
\* confirmed-event row carries event_period 0 and is excluded by the
\* event_period > 0 filter, so calculate_basic_statistics reports the mean,
\* median, standard deviation, minimum and maximum event period as 0, and
\* every row of the table of analyze_threshold_sensitivity has mean and
\* median event period 0.
C25_PeriodStatisticsAllZero ==
    /\ \A tau \in Thresholds : \A r \in Returned(tau) :
          HasColumn(r, "event_period") => EventPeriods(DcEvents(r)) = <<>>
    /\ (analysis.fn = "calculate_basic_statistics" /\ HasColumn(df_dc, "event_period")) =>
          /\ analysis.out.raised = "none"
          /\ analysis.out.mean_event_period = DZero
          /\ analysis.out.median_event_period = DZero
          /\ analysis.out.std_event_period = DZero
          /\ analysis.out.min_event_period = DZero
          /\ analysis.out.max_event_period = DZero
    /\ (analysis.fn = "analyze_threshold_sensitivity" /\ analysis.out.raised = "none") =>
          \A k \in 1..Len(analysis.out.df_sensitivity) :
              /\ analysis.out.df_sensitivity[k].mean_event_period = DZero
              /\ analysis.out.df_sensitivity[k].median_event_period = DZero

\* the basic statistics of a returned frame with three confirmed events
C25_Witness ==
    /\ analysis.fn = "calculate_basic_statistics"
    /\ df_dc = df_result
    /\ df_dc \in Returned(threshold)
    /\ HasColumn(df_dc, "event_period")
    /\ analysis.out.raised = "none"
    /\ analysis.out.total_events = 3
    /\ analysis.out.down_events = 1
    /\ analysis.out.mean_event_period = DZero

\* C26: generate_dc_signals with initial_position 'cash' on a frame returned
\* by the detector for positive prices ignores no confirmed event: every
\* confirmed-event row gets a non-hold signal, every no_event row gets hold,
\* and the number of non-hold signals equals the number of confirmed events.
C26_NoEventIgnoredFromCash ==
    (/\ analysis.fn = "generate_dc_signals"
     /\ analysis.initial_position = "cash"
     /\ HasColumn(df_dc, "event_period")) =>
        /\ analysis.out.raised = "none"
        /\ Len(analysis.out.signal) = Len(df_dc.event_type)
        /\ \A row \in Rows(df_dc.event_type) :
              IsEvent(At(df_dc.event_type, row)) <=> At(analysis.out.signal, row) # "hold"
        /\ Len(SelectSeq(analysis.out.signal, LAMBDA x : x # "hold"))
              = Len(ConfirmedTypes(df_dc.event_type))

\* the signals of a returned frame with a dc_up, a dc_down and a dc_up:
\* a buy, a sell and a buy, with hold rows between them
C26_Witness ==
    /\ analysis.fn = "generate_dc_signals"
    /\ analysis.initial_position = "cash"
    /\ df_dc \in Returned(threshold)
    /\ HasColumn(df_dc, "event_period")
    /\ analysis.out.raised = "none"
    /\ SelectSeq(analysis.out.signal, LAMBDA x : x # "hold") = <<"buy", "sell", "buy">>
    /\ \E row \in Rows(df_dc.event_type) : row > 0 /\ At(analysis.out.signal, row) = "hold"

\* C27: for any sequence of event types and either initial position, the
\* non-hold signals of generate_dc_signals strictly alternate between buy and
\* sell; a buy is emitted only when the position before the row is 0 and a
\* sell only when it is 1; and the position column is always 0 or 1, equal to
\* 1 exactly on the rows from a buy (inclusive) up to the next sell
\* (exclusive), or from the start while initially invested.
C27_SignalsAlternate ==
    (analysis.fn = "generate_dc_signals" /\ analysis.out.raised = "none") =>
        LET signal   == analysis.out.signal
            position == analysis.out.position
            initial  == IF analysis.initial_position = "invested" THEN DOne ELSE DZero
            trades   == SelectSeq(signal, LAMBDA x : x # "hold")
            before(k) == IF k = 1 THEN initial ELSE position[k - 1]
            last(k)  == {j \in 1..k : signal[j] # "hold" /\ \A n \in (j + 1)..k : signal[n] = "hold"}
        IN  /\ Len(signal) = Len(df_dc.event_type)
            /\ Len(position) = Len(df_dc.event_type)
            /\ \A k \in 1..(Len(trades) - 1) : trades[k] # trades[k + 1]
            /\ \A k \in 1..Len(signal) :
                  /\ signal[k] \in {"buy", "sell", "hold"}
                  /\ signal[k] = "buy" => before(k) = DZero
                  /\ signal[k] = "sell" => before(k) = DOne
                  /\ position[k] \in {DZero, DOne}
                  /\ position[k] = DOne <=>
                        IF last(k) = {} THEN initial = DOne
                        ELSE \E j \in last(k) : signal[j] = "buy"

\* initially invested, a dc_up that is ignored, then a sell and a buy
C27_Witness ==
    /\ analysis.fn = "generate_dc_signals"
    /\ analysis.initial_position = "invested"
    /\ analysis.out.raised = "none"
    /\ df_dc.event_type = <<"dc_up", "dc_down", "dc_up">>
    /\ analysis.out.signal = <<"hold", "sell", "buy">>
    /\ analysis.out.position = <<DOne, DZero, DOne>>

\* C28: in run_simple_backtest, for any signal sequence with positive prices
\* and initial capital and 0 <= transaction_cost <= 1: after every row cash
\* is 0 or shares is 0; cash and shares are never negative; a buy while cash
\* is 0 and a sell while shares is 0 change neither cash nor shares and record
\* trade_cost 0; and a hold row leaves cash and shares unchanged.
C28_BacktestSafety ==
    (analysis.fn = "run_simple_backtest" /\ analysis.out.raised = "none") =>
        LET out       == analysis.out
            cash(k)   == IF k = 0 THEN analysis.initial_capital ELSE out.cash[k]
            shares(k) == IF k = 0 THEN DZero ELSE out.shares[k]
            same(k)   == cash(k) = cash(k - 1) /\ shares(k) = shares(k - 1)
        IN  /\ Len(out.cash) = Len(df_dc.signal)
            /\ \A k \in 1..Len(df_dc.signal) :
                  /\ cash(k) = DZero \/ shares(k) = DZero
                  /\ DGeq(cash(k), DZero)
                  /\ DGeq(shares(k), DZero)
                  /\ (df_dc.signal[k] = "buy" /\ cash(k - 1) = DZero) =>
                         same(k) /\ out.trade_cost[k] = DZero
                  /\ (df_dc.signal[k] = "sell" /\ shares(k - 1) = DZero) =>
                         same(k) /\ out.trade_cost[k] = DZero
                  /\ df_dc.signal[k] = "hold" => same(k)

\* a buy at the default cost, a second buy with no cash left, and a sell
C28_Witness ==
    /\ analysis.fn = "run_simple_backtest"
    /\ analysis.out.raised = "none"
    /\ analysis.transaction_cost = Dec(1, 1000)
    /\ df_dc.signal = <<"buy", "buy", "sell">>
    /\ DGt(analysis.out.shares[1], DZero)
    /\ DGt(analysis.out.trade_cost[1], DZero)
    /\ analysis.out.trade_cost[2] = DZero
    /\ analysis.out.shares[2] = analysis.out.shares[1]
    /\ DGt(analysis.out.cash[3], DZero)
    /\ analysis.out.shares[3] = DZero

\* C21: run_dc_transform called while no ticker data is loaded raises
\* RuntimeError, does not call the detector, and leaves df_dc_events and
\* current_threshold unset.
C21_RunWithoutDataRejected ==
    [][(manager.df_hist_price = None /\ last_call'.method = "run_dc_transform") =>
          /\ last_call'.raised = "RuntimeError"
          /\ last_call'.transform_calls = 0
          /\ manager'.df_dc_events = None
          /\ manager'.current_threshold = None
      ]_vars

\* run_dc_transform with a threshold was called on a manager whose only load
\* had failed, or that had none
C21_Witness ==
    /\ last_call.method = "run_dc_transform"
    /\ last_call.threshold # None
    /\ last_call.raised = "RuntimeError"
    /\ manager = NewManager

\* C29: after any sequence of load_ticker_data and run_dc_transform calls,
\* successful or failing: df_dc_events is set if and only if
\* current_threshold is set; df_dc_events set implies price data is loaded;
\* and a set df_dc_events is the detector's result for the currently loaded
\* df_hist_price at current_threshold.  get_summary reports these fields
\* without changing them.
C29_ManagerConsistent ==
    /\ manager.df_dc_events # None <=> manager.current_threshold # None
    /\ manager.df_dc_events # None =>
          /\ manager.df_hist_price # None
          /\ manager.current_ticker # None
          /\ manager.df_dc_events =
                Some(TransformToDcEvents(manager.df_hist_price[1], manager.current_threshold[1]))

\* a successful load of another ticker has just dropped the DC result of the
\* ticker loaded before
C29_Witness ==
    /\ last_call.method = "load_ticker_data"
    /\ last_call.raised = "none"
    /\ last_call.had_dc_events
    /\ manager.current_ticker = Some(last_call.ticker)
    /\ manager.df_dc_events = None
    /\ manager.current_threshold = None

\* C30: a load_ticker_data call that raises RuntimeError (collection failed,
\* fewer rows than min_valid_rows, or unreadable file) leaves current_ticker,
\* df_hist_price, df_dc_events and current_threshold exactly as they were.
C30_FailedLoadChangesNothing ==
    [][(last_call'.method = "load_ticker_data" /\ last_call'.raised = "RuntimeError") =>
          /\ manager'.current_ticker = manager.current_ticker
          /\ manager'.df_hist_price = manager.df_hist_price
          /\ manager'.df_dc_events = manager.df_dc_events
          /\ manager'.current_threshold = manager.current_threshold
      ]_vars

\* the load of another ticker failed for too few rows, and the manager still
\* holds the ticker loaded before and its DC result
C30_Witness ==
    /\ last_call.method = "load_ticker_data"
    /\ last_call.raised = "RuntimeError"
    /\ last_call.failure = "insufficient data"
    /\ manager.current_ticker # None
    /\ manager.current_ticker # Some(last_call.ticker)
    /\ manager.df_dc_events # None
    /\ manager.current_threshold # None
====
